---------------------------- MODULE Spec2Model ----------------------------
(***************************************************************************)
(* Model of the crawlers of rohansawantred/hmtlparse.                      *)
(*                                                                         *)
(*   crawl_button.py ("cb")                    form-filling BFS crawler    *)
(*   infinite_scroll_crawler_links_butt.py ("isl")  scrolling BFS crawler  *)
(*                                                                         *)
(* A URL string is a sequence of tokens.  A token stands for one maximal   *)
(* run of characters that the URL functions never look inside: a delimiter *)
(* (":" "/" "?" "#" ";") or a word ("http", "mailto", "a", ...).  The      *)
(* operators below follow urllib.parse (CPython 3.11) statement by         *)
(* statement on such sequences.                                            *)
(***************************************************************************)
EXTENDS Integers, Sequences, FiniteSets, TLC

(***************************************************************************)
(* Python string helpers on token sequences.                               *)
(***************************************************************************)

\* str.find(c, start) with 1-based positions; 0 when c does not occur.
Find(s, c, start) ==
    IF \E i \in start..Len(s) : s[i] = c
    THEN CHOOSE i \in start..Len(s) :
             s[i] = c /\ \A j \in start..(i - 1) : s[j] # c
    ELSE 0

\* str.rfind(c) with 1-based positions; 0 when c does not occur.
RFind(s, c) ==
    IF \E i \in 1..Len(s) : s[i] = c
    THEN CHOOSE i \in 1..Len(s) :
             s[i] = c /\ \A j \in (i + 1)..Len(s) : s[j] # c
    ELSE 0

\* s[i:] of Python for the 1-based position i.
From(s, i) == SubSeq(s, i, Len(s))

\* str.endswith("/")
EndsWithSlash(s) == Len(s) > 0 /\ s[Len(s)] = "/"

\* str.rstrip("/"): every trailing "/" is removed.
RECURSIVE RStripSlash(_)
RStripSlash(s) ==
    IF EndsWithSlash(s) THEN RStripSlash(SubSeq(s, 1, Len(s) - 1)) ELSE s

\* str.split(c)
RECURSIVE Split(_, _)
Split(s, c) ==
    LET i == Find(s, c, 1)
    IN  IF i = 0 THEN <<s>>
        ELSE <<SubSeq(s, 1, i - 1)>> \o Split(From(s, i + 1), c)

\* c.join(segs)
RECURSIVE Join(_, _)
Join(segs, c) ==
    IF Len(segs) = 0 THEN <<>>
    ELSE IF Len(segs) = 1 THEN segs[1]
    ELSE segs[1] \o <<c>> \o Join(Tail(segs), c)

\* str.lower() of one token: the only upper-case word of the model is "HTTP".
Lower(t) == IF t = "HTTP" THEN "http" ELSE t

LowerSeq(s) == [i \in 1..Len(s) |-> Lower(s[i])]

(***************************************************************************)
(* urllib.parse.  Intermediate values are passed on as arguments, one      *)
(* statement of the Python source per operator.                            *)
(***************************************************************************)

Delims == {":", "/", "?", "#", ";"}

\* c in scheme_chars: letters, digits and "+-." ; every word token is one.
IsSchemeChar(t) == t \notin Delims

\* url[0].isalpha(): the word tokens start with a letter, "." does not.
IsAlpha(t) == t \notin Delims /\ t # "."

\* urllib.parse.uses_netloc / uses_relative / uses_params, as far as the
\* schemes of the model go: "" , http and https are in all three, mailto in none.
uses_netloc == {<<>>, <<"http">>, <<"https">>}

uses_relative == {<<>>, <<"http">>, <<"https">>}

uses_params == {<<>>, <<"http">>, <<"https">>}

\* url.split(c, 1) given i = url.find(c): <<before, after>>
SplitAt(url, i) ==
    IF i > 0 THEN <<SubSeq(url, 1, i - 1), From(url, i + 1)>> ELSE <<url, <<>>>>

Partition(url, c) == SplitAt(url, Find(url, c, 1))

\* urlsplit: i > 0 and url[0].isalpha() and every c of url[:i] in scheme_chars
HasScheme(url, i) ==
    /\ i > 1
    /\ IsAlpha(url[1])
    /\ \A k \in 1..(i - 1) : IsSchemeChar(url[k])

\* urlsplit: scheme, url = url[:i].lower(), url[i+1:]  (i = url.find(":"))
SplitScheme(url, default, i) ==
    IF HasScheme(url, i)
    THEN <<LowerSeq(SubSeq(url, 1, i - 1)), From(url, i + 1)>>
    ELSE <<default, url>>

\* _splitnetloc(url, 2): the netloc ends before the first of "/?#".
NetlocEnd(url) ==
    IF \E i \in 3..Len(url) : url[i] \in {"/", "?", "#"}
    THEN CHOOSE i \in 3..Len(url) :
             /\ url[i] \in {"/", "?", "#"}
             /\ \A j \in 3..(i - 1) : url[j] \notin {"/", "?", "#"}
    ELSE Len(url) + 1

SplitNetlocAt(url, e) == <<SubSeq(url, 3, e - 1), From(url, e)>>

\* urlsplit: if url[:2] == "//": netloc, url = _splitnetloc(url, 2)
SplitNetloc(url) ==
    IF Len(url) >= 2 /\ url[1] = "/" /\ url[2] = "/"
    THEN SplitNetlocAt(url, NetlocEnd(url))
    ELSE <<<<>>, url>>

SplitResult(scheme, netloc, pq, fragment) ==
    [scheme |-> scheme, netloc |-> netloc, path |-> pq[1],
     query |-> pq[2], fragment |-> fragment]

\* urlsplit: if "?" in url: url, query = url.split("?", 1)
SplitQuery(scheme, netloc, pf) ==
    SplitResult(scheme, netloc, Partition(pf[1], "?"), pf[2])

\* urlsplit: if "#" in url: url, fragment = url.split("#", 1)
SplitFragment(scheme, nr) == SplitQuery(scheme, nr[1], Partition(nr[2], "#"))

SplitAfterScheme(sr) == SplitFragment(sr[1], SplitNetloc(sr[2]))

\* urlsplit(url, scheme=default)
urlsplit(url, default) ==
    SplitAfterScheme(SplitScheme(url, default, Find(url, ":", 1)))

\* _splitparams(url): the parameters of the last path segment.
splitparams(url) ==
    SplitAt(url, IF Find(url, "/", 1) > 0
                 THEN Find(url, ";", RFind(url, "/"))
                 ELSE Find(url, ";", 1))

ParseResult(s, sp) ==
    [scheme |-> s.scheme, netloc |-> s.netloc, path |-> sp[1],
     params |-> sp[2], query |-> s.query, fragment |-> s.fragment]

\* urlparse: if scheme in uses_params and ";" in url: url, params = _splitparams(url)
ParseSplit(s) ==
    ParseResult(s, IF s.scheme \in uses_params /\ Find(s.path, ";", 1) > 0
                   THEN splitparams(s.path)
                   ELSE <<s.path, <<>>>>)

\* urlparse(url, scheme=default): a ParseResult, the six fields of the tuple.
urlparse_default(url, default) == ParseSplit(urlsplit(url, default))

urlparse(url) == urlparse_default(url, <<>>)

\* urlunsplit: if url and url[:1] != "/": url = "/" + url; url = "//" + netloc + url
UnsplitNetloc(scheme, netloc, url) ==
    IF \/ Len(netloc) > 0
       \/ /\ Len(scheme) > 0
          /\ scheme \in uses_netloc
          /\ ~(Len(url) >= 2 /\ url[1] = "/" /\ url[2] = "/")
    THEN <<"/", "/">> \o netloc
         \o (IF Len(url) > 0 /\ url[1] # "/" THEN <<"/">> ELSE <<>>) \o url
    ELSE url

\* urlunsplit: if scheme: url = scheme + ":" + url
UnsplitScheme(scheme, url) ==
    IF Len(scheme) > 0 THEN scheme \o <<":">> \o url ELSE url

\* urlunsplit: if query: url = url + "?" + query; likewise "#" + fragment
\* and, in urlunparse, ";" + params
UnsplitPart(url, c, part) ==
    IF Len(part) > 0 THEN url \o <<c>> \o part ELSE url

\* urlunsplit((scheme, netloc, url, query, fragment))
urlunsplit(scheme, netloc, url, query, fragment) ==
    UnsplitPart(
        UnsplitPart(UnsplitScheme(scheme, UnsplitNetloc(scheme, netloc, url)),
                    "?", query),
        "#", fragment)

\* urlunparse((scheme, netloc, url, params, query, fragment))
urlunparse(scheme, netloc, url, params, query, fragment) ==
    urlunsplit(scheme, netloc, UnsplitPart(url, ";", params), query, fragment)

\* urljoin: if base_parts[-1] != "": del base_parts[-1]
DropLastFile(parts) ==
    IF parts[Len(parts)] # <<>> THEN SubSeq(parts, 1, Len(parts) - 1) ELSE parts

\* urljoin: segments[1:-1] = filter(None, segments[1:-1])
FilterInner(segs) ==
    IF Len(segs) < 3 THEN segs
    ELSE <<segs[1]>>
         \o SelectSeq(SubSeq(segs, 2, Len(segs) - 1), LAMBDA x : Len(x) > 0)
         \o <<segs[Len(segs)]>>

\* urljoin: the loop that removes "." and ".." segments
RECURSIVE ResolveDots(_, _)
ResolveDots(segs, acc) ==
    IF Len(segs) = 0 THEN acc
    ELSE IF segs[1] = <<".", ".">>
         THEN ResolveDots(Tail(segs),
                          IF Len(acc) > 0 THEN SubSeq(acc, 1, Len(acc) - 1) ELSE acc)
    ELSE IF segs[1] = <<".">> THEN ResolveDots(Tail(segs), acc)
    ELSE ResolveDots(Tail(segs), Append(acc, segs[1]))

\* urljoin: if segments[-1] in (".", ".."): resolved_path.append("")
ResolvedPath(segs) ==
    ResolveDots(segs, <<>>)
    \o (IF segs[Len(segs)] \in {<<".">>, <<".", ".">>} THEN <<<<>>>> ELSE <<>>)

\* urljoin: "/".join(resolved_path) or "/"
OrRoot(path) == IF Len(path) = 0 THEN <<"/">> ELSE path

\* urljoin: the segments of the joined path
JoinSegments(bpath, path) ==
    IF Len(path) > 0 /\ path[1] = "/"
    THEN Split(path, "/")
    ELSE FilterInner(DropLastFile(Split(bpath, "/")) \o Split(path, "/"))

\* urljoin after "if scheme in uses_netloc: ... netloc = bnetloc"
JoinPath(b, u, netloc) ==
    IF Len(u.path) = 0 /\ Len(u.params) = 0
    THEN urlunparse(u.scheme, netloc, b.path, b.params,
                    IF Len(u.query) = 0 THEN b.query ELSE u.query, u.fragment)
    ELSE urlunparse(u.scheme, netloc,
                    OrRoot(Join(ResolvedPath(JoinSegments(b.path, u.path)), "/")),
                    u.params, u.query, u.fragment)

\* urljoin after both URLs are parsed
JoinParsed(b, u, url) ==
    IF u.scheme # b.scheme \/ u.scheme \notin uses_relative THEN url
    ELSE IF u.scheme \in uses_netloc /\ Len(u.netloc) > 0
    THEN urlunparse(u.scheme, u.netloc, u.path, u.params, u.query, u.fragment)
    ELSE JoinPath(b, u, IF u.scheme \in uses_netloc THEN b.netloc ELSE u.netloc)

JoinBase(b, url) == JoinParsed(b, urlparse_default(url, b.scheme), url)

\* urljoin(base, url)
urljoin(base, url) ==
    IF Len(base) = 0 THEN url
    ELSE IF Len(url) = 0 THEN base
    ELSE JoinBase(urlparse(base), url)

(***************************************************************************)
(* URL Normalizer and Domain Filter                                        *)
(***************************************************************************)

\* a path step that removes one trailing slash only: rstrip taken for [:-1]
StripTrailingOne(path) ==
    IF EndsWithSlash(path) /\ path # <<"/">>
    THEN SubSeq(path, 1, Len(path) - 1)
    ELSE path

\* the path step shared by both normalizers:
\*     if path.endswith("/") and path != "/": path = path.rstrip("/")
StripTrailing(path) ==
    IF EndsWithSlash(path) /\ path # <<"/">> THEN RStripSlash(path) ELSE path

\* parsed._replace(fragment=""), the path step, urlunparse
Reassemble(parsed) ==
    urlunparse(parsed.scheme, parsed.netloc, StripTrailing(parsed.path),
               parsed.params, parsed.query, <<>>)

\* crawl_button.normalize_url: if not parsed.netloc:
\*     parsed = urlparse(urljoin(base_origin, raw_url))
ResolveRelative(parsed, raw_url, base_origin) ==
    IF Len(parsed.netloc) = 0
    THEN urlparse(urljoin(base_origin, raw_url))
    ELSE parsed

\* crawl_button.normalize_url(raw_url, base_origin).  No token sequence of the
\* model makes urlparse raise (that takes a "[" or "]" in the netloc), so the
\* except branch that returns None is not taken.
normalize_url_cb(raw_url, base_origin) ==
    Reassemble(ResolveRelative(urlparse(raw_url), raw_url, base_origin))

\* infinite_scroll_crawler_links_butt.normalize_url(raw_url)
normalize_url_isl(raw_url) == Reassemble(urlparse(raw_url))

\* The attributes a ParseResult has, as far as the crawlers ask for them: the
\* six fields of the tuple.  getattr of any other name raises AttributeError.
AttributeError == "AttributeError"

GetAttr(obj, name) ==
    IF name \in DOMAIN obj THEN obj[name] ELSE AttributeError

\* the comparison of in_domain, given the two attribute reads
SameOrigin(a, b) ==
    IF a = AttributeError \/ b = AttributeError THEN FALSE ELSE a = b

\* crawl_button.in_domain(link, base_origin):
\*     try:    return urlparse(link).origin == urlparse(base_origin).origin
\*     except: return False
in_domain_cb(link, base_origin) ==
    SameOrigin(GetAttr(urlparse(link), "origin"),
               GetAttr(urlparse(base_origin), "origin"))

\* infinite_scroll_crawler_links_butt.in_domain(link, home_netloc):
\*     return parsed.netloc == "" or parsed.netloc == home_netloc
NetlocInDomain(netloc, home) == netloc = <<>> \/ netloc = home

in_domain_isl(link, home) == NetlocInDomain(urlparse(link).netloc, home)

(***************************************************************************)
(* State                                                                   *)
(***************************************************************************)

VARIABLES
    crawler,    \* "cb": crawl_button.py, "isl": infinite_scroll_crawler_links_butt.py,
                \* "indigo": crawl_indigo_buttons.py, "selenium": selenium_crawl.py
                \* "azure": azure_selenium_generator.py
    \* the URL functions applied to one raw URL
    npc,        \* the next application: "norm", "sibling", "domain", "end"
    nraw,       \* the raw URL
    nbase,      \* the base (cb: the page's URL) and home URL
    nout,       \* <<normalize(raw), normalize(normalize(raw)), ...>>
    nsib,       \* a second raw URL, nraw with a fragment or a trailing slash added
    nsibout,    \* <<normalize(nsib)>> once applied
    ndom,       \* <<in_domain(link, home)>> once applied
    \* crawl_and_record
    pc,         \* "launch", "loop", "goto", "page", "interact", "compile", "done",
                \* "aborted"; "launch_failed" (returned), "launch_raised" (left
                \* by an exception) when the browser did not start;
                \* "off" when no crawl runs
    home_url,   \* argument
    max_pages,  \* argument
    visited,    \* set of normalized URLs
    frontier,   \* deque of normalized URLs, head first
    pages_visited,
    page_url,   \* the URL being visited (cb: url, isl: raw_url)
    extracted_hrefs,  \* isl: the normalized in-domain links of the current page
    link_freq,  \* isl: defaultdict(int), the keys counted so far
    global_links,     \* isl
    \* history of the run, not program state
    dispatched, \* the URLs handed to a page visit, in order
    appended,   \* the URLs appended to the frontier, in order (the seed first)
    nav_failed, \* the URLs whose navigation failed
    \* the end of process_page and of crawl_and_record
    new_links,  \* cb: the list process_page returns
    pdf,        \* the calls of screenshots[0].save: the pages handed over, and
                \* whether the file was written
    \* crawl_button.process_form_chain on one page
    fpc,        \* "scan", "fill", "highlight", "click", "clear", "done" (returned),
                \* "raised" (left by an exception); "off" when no chain runs
    dom,        \* the forms of the page in document order
    target,     \* target_form: its position in dom, 0 for None
    fill_i,     \* the inputs of the target form handled so far
    shots,      \* the labels of the screenshots appended, the first MaxShots of them
    ops,        \* history: the operations since the last SCAN that found a form
    typed,      \* history: the oracle's outcome and the value passed to inp.type,
                \* for the inputs handled since the last SCAN that found a form
    handles,    \* target_form, inputs, btn: "none", "current" (obtained since the
                \* last CLICK) or "before_click"
    \* the resolver of a button's inputs applied to one button
    apc,        \* "resolve", "end" (returned), "raised"; "off" when none runs
    button,     \* the button and the page around it
    related,    \* what the resolver returned, and the heuristics it went through
    \* history of the scrolling crawler's run
    frontier_at_global,   \* <<the frontier, and the number of URLs dispatched,
                          \* at the moment global_links was computed>>, or <<>>
    \* the infinite-scroll pass on one page
    scroll,     \* pc ("start", "loop", "done", "raised"; "off" when none runs),
                \* max_scrolls, i (steps performed), last_height, heights
                \* (history: the heights read, the first one before any step),
                \* screenshots (the step numbers of the screenshots appended)
    \* azure_selenium_generator: the agent's run with record_activity as hook
    rec         \* pc ("run", "done", "raised"; "off" when none runs), steps,
                \* history (the agent's model actions), last (the last model
                \* output), actionslist, screenshots

normVars == <<npc, nraw, nbase, nout, nsib, nsibout, ndom>>

crawlVars == <<pc, home_url, max_pages, visited, frontier, pages_visited, page_url,
               extracted_hrefs, link_freq, global_links,
               dispatched, appended, nav_failed>>

formVars == <<fpc, dom, target, fill_i, shots, ops, typed, handles>>

docVars == <<new_links, pdf>>

assocVars == <<apc, button, related>>

sideVars == <<scroll, rec>>

vars == <<crawler, normVars, crawlVars, docVars, formVars, assocVars, sideVars,
          frontier_at_global>>

\* what the actions of one part leave alone
outsideNorm == <<crawlVars, docVars, formVars, assocVars, sideVars, frontier_at_global>>

outsideCrawl == <<normVars, docVars, formVars, assocVars, sideVars, frontier_at_global>>

outsideForm == <<normVars, crawlVars, docVars, assocVars, sideVars, frontier_at_global>>

outsideAssoc == <<normVars, crawlVars, docVars, formVars, sideVars, frontier_at_global>>

Crawlers == {"cb", "isl"}

(***************************************************************************)
(* Bounds and input sets                                                   *)
(***************************************************************************)

\* the longest run of free tokens of a raw URL
MaxUrlLen == 3

\* how often normalize is applied to its own output
MaxApply == 3

UrlTokens == {"http", "HTTP", "mailto", "a", ".", ":", "/", "?", "#", ";"}

TokenStrings(n) == UNION {[1..k -> UrlTokens] : k \in 0..n}

UrlPrefixes ==
    { <<>>,
      <<"http", ":", "/", "/", "h">>,
      <<"http", ":", "/", "/", "h", "/">>,
      <<"https", ":", "/", "/", "h">> }

RawUrls == {pre \o t : pre \in UrlPrefixes, t \in TokenStrings(MaxUrlLen)}

BaseUrls ==
    { <<"http", ":", "/", "/", "h">>,
      <<"http", ":", "/", "/", "h", "/", "a", "/", "b", "?", "a">> }

\* the second argument: cb passes the URL of the page the link is on, which is
\* also taken for the home URL; isl has no base, only the home URL, of which
\* it reads the netloc alone
BasesOf(c) == IF c = "cb" THEN BaseUrls ELSE {<<"http", ":", "/", "/", "h">>}

\* raw with the fragment f in place of its own
WithFragment(raw, f) == Partition(raw, "#")[1] \o <<"#">> \o f

\* raw with one more "/" at the end of its path
PathEnd(raw) ==
    IF \E i \in 1..Len(raw) : raw[i] \in {"?", "#"}
    THEN CHOOSE i \in 1..Len(raw) :
             /\ raw[i] \in {"?", "#"}
             /\ \A j \in 1..(i - 1) : raw[j] \notin {"?", "#"}
    ELSE Len(raw) + 1

InsertSlash(raw, e) == SubSeq(raw, 1, e - 1) \o <<"/">> \o From(raw, e)

WithSlash(raw) == InsertSlash(raw, PathEnd(raw))

Siblings(raw) == {WithFragment(raw, <<"a">>), WithFragment(raw, <<>>), WithSlash(raw)}

(***************************************************************************)
(* The URL functions as the crawlers call them                             *)
(***************************************************************************)

\* crawl_and_record: home_origin = f"{parsed.scheme}://{parsed.netloc}"
OriginOf(parsed) == parsed.scheme \o <<":", "/", "/">> \o parsed.netloc

home_origin(home) == OriginOf(urlparse(home))

\* crawl_and_record: home_netloc = urlparse(home_url).netloc
home_netloc(home) == urlparse(home).netloc

\* normalize_url as crawler c calls it on a raw href found on page base
Normalize(c, raw, base) ==
    IF c = "cb" THEN normalize_url_cb(raw, base) ELSE normalize_url_isl(raw)

\* the link crawler c hands to in_domain: cb filters the normalized link
\* (process_page), isl the href as the browser gives it
DomainArg(c, raw, base) ==
    IF c = "cb" THEN normalize_url_cb(raw, base) ELSE raw

\* in_domain as crawler c calls it
InDomain(c, link, home) ==
    IF c = "cb" THEN in_domain_cb(link, home_origin(home))
    ELSE in_domain_isl(link, home_netloc(home))

\* no crawl is running
CrawlIdle ==
    /\ pc = "off"
    /\ home_url = <<>>
    /\ max_pages = 0
    /\ visited = {}
    /\ frontier = <<>>
    /\ pages_visited = 0
    /\ page_url = <<>>
    /\ extracted_hrefs = <<>>
    /\ link_freq = <<>>
    /\ global_links = {}
    /\ dispatched = <<>>
    /\ appended = <<>>
    /\ nav_failed = {}
    /\ frontier_at_global = <<>>
    /\ new_links = <<>>
    /\ pdf = <<>>

\* no URL function is being applied
NormIdle ==
    /\ npc = "end"
    /\ nraw = <<>>
    /\ nbase = <<>>
    /\ nout = <<>>
    /\ nsib = <<>>
    /\ nsibout = <<>>
    /\ ndom = <<>>

\* no form chain is running
NoHandles == [target_form |-> "none", inputs |-> "none", btn |-> "none"]

FormIdle ==
    /\ fpc = "off"
    /\ dom = <<>>
    /\ target = 0
    /\ fill_i = 0
    /\ shots = <<>>
    /\ ops = <<>>
    /\ typed = <<>>
    /\ handles = NoHandles

\* no resolver is running
AssocIdle ==
    /\ apc = "off"
    /\ button = <<>>
    /\ related = <<>>

\* no scroll pass is running
ScrollOff ==
    [pc |-> "off", max_scrolls |-> 0, i |-> 0, last_height |-> 0,
     heights |-> <<>>, screenshots |-> <<>>]

\* no agent is running
NoOutput == [m |-> 0, success |-> TRUE, error |-> FALSE]

RecOff ==
    [pc |-> "off", steps |-> 0, history |-> <<>>, last |-> NoOutput,
     actionslist |-> <<>>, screenshots |-> <<>>]

SideIdle ==
    /\ scroll = ScrollOff
    /\ rec = RecOff

InitNorm ==
    /\ crawler \in Crawlers
    /\ npc = "norm"
    /\ nraw \in RawUrls
    /\ nbase \in BasesOf(crawler)
    /\ nout = <<>>
    /\ nsib = <<>>
    /\ nsibout = <<>>
    /\ ndom = <<>>
    /\ CrawlIdle
    /\ FormIdle
    /\ AssocIdle
    /\ SideIdle

\* normalize applied to the raw URL, then to its own result
ApplyNormalize ==
    /\ npc = "norm"
    /\ nout' = Append(nout, Normalize(crawler,
                                      IF nout = <<>> THEN nraw ELSE nout[Len(nout)],
                                      nbase))
    /\ npc' = IF Len(nout) + 1 >= MaxApply THEN "sibling" ELSE "norm"
    /\ UNCHANGED <<crawler, nraw, nbase, nsib, nsibout, ndom, outsideNorm>>

\* normalize applied to a sibling of the raw URL
ApplySibling ==
    /\ npc = "sibling"
    /\ \E s \in Siblings(nraw) :
          /\ nsib' = s
          /\ nsibout' = <<Normalize(crawler, s, nbase)>>
    /\ npc' = "domain"
    /\ UNCHANGED <<crawler, nraw, nbase, nout, ndom, outsideNorm>>

\* in_domain applied as the crawler applies it to a link of the page
ApplyInDomain ==
    /\ npc = "domain"
    /\ ndom' = <<InDomain(crawler, DomainArg(crawler, nraw, nbase), nbase)>>
    /\ npc' = "end"
    /\ UNCHANGED <<crawler, nraw, nbase, nout, nsib, nsibout, outsideNorm>>

NextNorm == ApplyNormalize \/ ApplySibling \/ ApplyInDomain

SpecNorm == InitNorm /\ [][NextNorm]_vars

(***************************************************************************)
(* crawl_and_record: the traversal loop of both crawlers                   *)
(***************************************************************************)

\* the largest page budget
MaxPages == 3

\* the most anchors one page holds
MaxLinks == 2

\* FREQ_LIMIT = 5  # first N pages to detect global links
FREQ_LIMIT == 5

\* the start URLs: a site root, a page below it, and the empty string
HomeUrls ==
    { <<"http", ":", "/", "/", "h">>,
      <<"http", ":", "/", "/", "h", "/", "a", "/">>,
      <<>> }

\* the href values a page may hold
HrefPool ==
    { <<"http", ":", "/", "/", "h", "/", "a">>,
      <<"http", ":", "/", "/", "h", "/", "a", "/">>,
      <<"http", ":", "/", "/", "h", "/", "b", "#", "f">>,
      <<"http", ":", "/", "/", "x", "/", "a">> }

\* the anchors of a page in document order
HrefLists == UNION {[1..k -> HrefPool] : k \in 0..MaxLinks}

\* a start URL of a site with enough pages for the frequency table to fill
FreqHome == <<"http", ":", "/", "/", "f">>

\* the href values a page of that site may hold
FreqHrefPool ==
    { <<"http", ":", "/", "/", "f", "/", "a">>,
      <<"http", ":", "/", "/", "f", "/", "b">>,
      <<"http", ":", "/", "/", "f", "/", "c">>,
      <<"http", ":", "/", "/", "f", "/", "d">>,
      <<"http", ":", "/", "/", "f", "/", "e">> }

\* the links a page of the site may carry in its navigation bar
FreqNavLinks ==
    { <<"http", ":", "/", "/", "f", "/", "a">>,
      <<"http", ":", "/", "/", "f", "/", "b">> }

\* a page that repeats one link FREQ_LIMIT - 1 times
FreqRepeated == [k \in 1..(FREQ_LIMIT - 1) |-> <<"http", ":", "/", "/", "f", "/", "e">>]

\* the anchors of a page of that site in document order: none, a navigation
\* link followed by one more anchor (the same link again included), or one
\* link repeated
FreqHrefLists ==
    {<<>>} \cup {<<x, y>> : x \in FreqNavLinks, y \in FreqHrefPool} \cup {FreqRepeated}

\* the anchors the pages of the site of home may hold
PageHrefs(home) == IF home = FreqHome THEN FreqHrefLists ELSE HrefLists

\* the page budgets around FREQ_LIMIT
FreqBudgets == {FREQ_LIMIT - 1, FREQ_LIMIT, FREQ_LIMIT + 1}

Range(q) == {q[i] : i \in 1..Len(q)}

\* list(new_links): the elements of a set in some order
OrdersOf(S) ==
    {q \in [1..Cardinality(S) -> S] : \A i, j \in 1..Cardinality(S) : q[i] = q[j] => i = j}

\* frontier = deque([normalize_url(home_url, ...)])
Seed(c, home) == Normalize(c, home, home)

\* cb:  if not url or url in visited: continue
\* isl: if raw_url in visited: continue
SkipsDequeued(c, u, vis) ==
    IF c = "cb" THEN Len(u) = 0 \/ u \in vis ELSE u \in vis

\* a visited set that records nothing
MarkVisitedForget(vis, u) == vis

\* visited.add(url)
MarkVisited(vis, u) == vis \cup {u}

\* a loop test that lets one more page through
LoopContinuesOneMore(q, n, budget) == Len(q) > 0 /\ n <= budget

\* while frontier and pages_visited < max_pages
LoopContinues(q, n, budget) == Len(q) > 0 /\ n < budget

\* a queue that takes new links at its head
QueuePush(q, link) == <<link>> \o q

\* frontier.append(link)
QueueAppend(q, link) == Append(q, link)

\* an enqueue test that does not look at global_links
ShouldEnqueueIgnoringGlobal(c, link, vis, q, glob) ==
    IF c = "cb" THEN link \notin vis
    ELSE link \notin vis /\ link \notin Range(q)

\* an enqueue test that looks at the visited set only
ShouldEnqueueVisitedOnly(c, link, vis, q, glob) == link \notin vis

\* an enqueue test that does not look at the frontier
ShouldEnqueueUnqueued(c, link, vis, q, glob) ==
    IF c = "cb" THEN link \notin vis
    ELSE link \notin vis /\ link \notin glob

\* cb:  if link not in visited
\* isl: if href not in visited and href not in frontier and href not in global_links
ShouldEnqueue(c, link, vis, q, glob) ==
    IF c = "cb" THEN link \notin vis
    ELSE link \notin vis /\ link \notin Range(q) /\ link \notin glob

\* one pass of the enqueue loop; acc.q is the frontier, acc.log what was appended
EnqueueOne(c, acc, link, vis, glob) ==
    IF ShouldEnqueue(c, link, vis, acc.q, glob)
    THEN [q |-> QueueAppend(acc.q, link), log |-> Append(acc.log, link)]
    ELSE acc

\* for link in new_links: ... frontier.append(link)
RECURSIVE EnqueueAll(_, _, _, _, _)
EnqueueAll(c, acc, links, vis, glob) ==
    IF Len(links) = 0 THEN acc
    ELSE EnqueueAll(c, EnqueueOne(c, acc, Head(links), vis, glob),
                    Tail(links), vis, glob)

\* isl: if href and in_domain(href, home_netloc):
\*          extracted_hrefs.append(normalize_url(href))
NormalizeEach(hrefs) == [i \in 1..Len(hrefs) |-> normalize_url_isl(hrefs[i])]

ExtractHrefs(hrefs, home) ==
    NormalizeEach(SelectSeq(hrefs,
        LAMBDA h : Len(h) > 0 /\ in_domain_isl(h, home_netloc(home))))

\* cb process_page: norm = normalize_url(raw_href, url)
\*                  if norm and in_domain(norm, home_origin): new_links.add(norm)
KeepLink(norm, home) == Len(norm) > 0 /\ in_domain_cb(norm, home_origin(home))

NewLinks(hrefs, base, home) ==
    {norm \in {normalize_url_cb(hrefs[i], base) : i \in 1..Len(hrefs)} :
        KeepLink(norm, home)}

\* isl: link_freq[href] += 1 on a defaultdict(int)
FreqInc(freq, link) ==
    [k \in DOMAIN freq \cup {link} |->
        IF k = link THEN (IF k \in DOMAIN freq THEN freq[k] + 1 ELSE 1) ELSE freq[k]]

\* isl: for href in extracted_hrefs: link_freq[href] += 1
RECURSIVE FreqAddAll(_, _)
FreqAddAll(freq, links) ==
    IF Len(links) = 0 THEN freq
    ELSE FreqAddAll(FreqInc(freq, Head(links)), Tail(links))

\* isl: if pages_visited <= FREQ_LIMIT: ...
FreqAfterPage(freq, links, n) ==
    IF n <= FREQ_LIMIT THEN FreqAddAll(freq, links) ELSE freq

\* global links that are computed on every page up to FREQ_LIMIT
GlobalAfterPageEarly(glob, freq, n) ==
    IF n <= FREQ_LIMIT
    THEN glob \cup {l \in DOMAIN freq : freq[l] >= FREQ_LIMIT - 1}
    ELSE glob

\* isl: if pages_visited == FREQ_LIMIT:
\*          for link, freq in link_freq.items():
\*              if freq >= FREQ_LIMIT - 1: global_links.add(link)
GlobalAfterPage(glob, freq, n) ==
    IF n = FREQ_LIMIT
    THEN glob \cup {l \in DOMAIN freq : freq[l] >= FREQ_LIMIT - 1}
    ELSE glob

\* history: the frontier as it is when 'if pages_visited == FREQ_LIMIT' fills
\* global_links, before the enqueue loop of that page, and the number of URLs
\* dispatched until then
FrontierWhenComputed(snap, q, d, n) ==
    IF n = FREQ_LIMIT THEN Append(snap, [frontier |-> q, n |-> Len(d)]) ELSE snap

InitCrawl ==
    /\ crawler \in Crawlers
    /\ home_url \in HomeUrls
    /\ max_pages \in 0..MaxPages
    /\ pc = "launch"
    /\ visited = {}
    /\ frontier = <<Seed(crawler, home_url)>>
    /\ pages_visited = 0
    /\ page_url = <<>>
    /\ extracted_hrefs = <<>>
    /\ link_freq = <<>>
    /\ global_links = {}
    /\ dispatched = <<>>
    /\ appended = <<Seed(crawler, home_url)>>
    /\ nav_failed = {}
    /\ frontier_at_global = <<>>
    /\ new_links = <<>>
    /\ pdf = <<>>
    /\ NormIdle
    /\ FormIdle
    /\ AssocIdle
    /\ SideIdle

\* the exceptions pyppeteer.launch ends with when the browser does not start:
\* its own BrowserError, or the OSError of the failed process creation
LaunchOutcomes == {"ok", "BrowserError", "OSError"}

\* crawl_button imports only 'launch' from pyppeteer; the scrolling crawler
\* also has 'from pyppeteer.errors import BrowserError'
BrowserErrorImported(c) == c = "isl"

\* try: browser = await launch(launch_opts)
\* except BrowserError as e: print(...); return
\* With the name BrowserError unbound, matching the except clause raises
\* NameError; an exception of another class is not matched.  Both leave
\* crawl_and_record by an exception.
AfterLaunch(c, outcome) ==
    IF outcome = "ok" THEN "loop"
    ELSE IF outcome = "BrowserError" /\ BrowserErrorImported(c)
         THEN "launch_failed"
         ELSE "launch_raised"

Launch ==
    /\ pc = "launch"
    /\ \E outcome \in LaunchOutcomes : pc' = AfterLaunch(crawler, outcome)
    /\ UNCHANGED <<crawler, home_url, max_pages, visited, frontier, pages_visited,
                   page_url, extracted_hrefs, link_freq, global_links, dispatched,
                   appended, nav_failed, outsideCrawl>>

\* the head of the while loop: the loop test, popleft, the visited test,
\* visited.add and the page counter
Dequeue ==
    /\ pc = "loop"
    /\ IF LoopContinues(frontier, pages_visited, max_pages)
       THEN /\ frontier' = Tail(frontier)
            /\ IF SkipsDequeued(crawler, Head(frontier), visited)
               THEN /\ pc' = "loop"
                    /\ UNCHANGED <<visited, pages_visited, page_url, dispatched>>
               ELSE /\ pc' = "goto"
                    /\ page_url' = Head(frontier)
                    /\ visited' = MarkVisited(visited, Head(frontier))
                    /\ pages_visited' = pages_visited + 1
                    /\ dispatched' = Append(dispatched, Head(frontier))
       ELSE /\ pc' = "compile"
            /\ UNCHANGED <<frontier, visited, pages_visited, page_url, dispatched>>
    /\ UNCHANGED <<crawler, home_url, max_pages, extracted_hrefs, link_freq,
                   global_links, appended, nav_failed, outsideCrawl>>

\* a navigation whose failure is not noticed: the visit goes on
AfterGotoUnchecked(ok) == "page"

\* try: await page.goto(url) except: return [] (cb) / continue (isl): where the
\* visit goes after the navigation
AfterGoto(ok) == IF ok THEN "page" ELSE "loop"

\* await page.goto(url): it loads the page, or it raises and the visit ends
\* (cb: process_page returns [], isl: continue)
Goto ==
    /\ pc = "goto"
    /\ \E ok \in BOOLEAN :
          /\ pc' = AfterGoto(ok)
          /\ nav_failed' = IF ok THEN nav_failed ELSE nav_failed \cup {page_url}
    /\ UNCHANGED <<crawler, home_url, max_pages, visited, frontier, pages_visited,
                   page_url, extracted_hrefs, link_freq, global_links, dispatched,
                   appended, outsideCrawl>>

\* cb: the rest of process_page on the page with anchors hrefs, and the enqueue
\* loop of crawl_and_record.  A driver call outside every try (querySelectorAll,
\* screenshot) may raise, which ends crawl_and_record.
PageCb ==
    /\ pc = "page"
    /\ crawler = "cb"
    /\ \E hrefs \in HrefLists, raises \in BOOLEAN :
          IF raises
          THEN /\ pc' = "aborted"
               /\ UNCHANGED <<frontier, appended>>
          ELSE \E links \in OrdersOf(NewLinks(hrefs, page_url, home_url)) :
                 /\ frontier' =
                      EnqueueAll("cb", [q |-> frontier, log |-> <<>>],
                                 links, visited, global_links).q
                 /\ appended' = appended \o
                      EnqueueAll("cb", [q |-> frontier, log |-> <<>>],
                                 links, visited, global_links).log
                 /\ pc' = "loop"
    /\ UNCHANGED <<crawler, home_url, max_pages, visited, pages_visited, page_url,
                   extracted_hrefs, link_freq, global_links, dispatched,
                   nav_failed, outsideCrawl>>

\* isl: scrolling, link extraction, the frequency table and the enqueue loop on
\* the page with anchors hrefs.  The scroll pass calls the driver outside every
\* try (evaluate, screenshot, querySelectorAll): a failure ends crawl_and_record.
PageIsl ==
    /\ pc = "page"
    /\ crawler = "isl"
    /\ \E hrefs \in PageHrefs(home_url), raises \in BOOLEAN :
          IF raises
          THEN /\ pc' = "aborted"
               /\ UNCHANGED <<frontier, appended, extracted_hrefs, link_freq,
                              global_links, frontier_at_global>>
          ELSE /\ extracted_hrefs' = ExtractHrefs(hrefs, home_url)
               /\ link_freq' = FreqAfterPage(link_freq, extracted_hrefs', pages_visited)
               /\ global_links' = GlobalAfterPage(global_links, link_freq', pages_visited)
               /\ frontier_at_global' =
                    FrontierWhenComputed(frontier_at_global, frontier, dispatched,
                                         pages_visited)
               /\ frontier' =
                    EnqueueAll("isl", [q |-> frontier, log |-> <<>>],
                               extracted_hrefs', visited, global_links').q
               /\ appended' = appended \o
                    EnqueueAll("isl", [q |-> frontier, log |-> <<>>],
                               extracted_hrefs', visited, global_links').log
               /\ pc' = "interact"
    /\ UNCHANGED <<crawler, home_url, max_pages, visited, pages_visited, page_url,
                   dispatched, nav_failed, normVars, docVars, formVars, assocVars,
                   sideVars>>

\* isl: the highlight-and-click passes over the links and buttons of the page.
\* They change no crawl state; page.goto(href) and page.screenshot are outside
\* every try, so a failure there ends crawl_and_record.
InteractIsl ==
    /\ pc = "interact"
    /\ \E raises \in BOOLEAN : pc' = IF raises THEN "aborted" ELSE "loop"
    /\ UNCHANGED <<crawler, home_url, max_pages, visited, frontier, pages_visited,
                   page_url, extracted_hrefs, link_freq, global_links, dispatched,
                   appended, nav_failed, outsideCrawl>>

\* a save that leaves out the first image
PagesWithoutFirst(screenshots) == Tail(screenshots)

\* screenshots[0].save(output_pdf, save_all=True, append_images=screenshots[1:])
PagesOf(screenshots) == <<Head(screenshots)>> \o Tail(screenshots)

\* after the loop: if screenshots: try: save(...) except Exception: print;
\* else: print; then the browser is closed.  Spec and SpecFreq do not follow
\* the screenshots of the scrolling crawler; SpecVisit follows those of
\* crawl_button.
Compile ==
    /\ pc = "compile"
    /\ pc' = "done"
    /\ IF shots = <<>>
       THEN UNCHANGED pdf
       ELSE \E saved \in BOOLEAN :
               pdf' = Append(pdf, [pages |-> PagesOf(shots), saved |-> saved])
    /\ UNCHANGED <<crawler, home_url, max_pages, visited, frontier, pages_visited,
                   page_url, extracted_hrefs, link_freq, global_links, dispatched,
                   appended, nav_failed, new_links, normVars, formVars, assocVars,
                   sideVars, frontier_at_global>>

NextCrawl == Launch \/ Dequeue \/ Goto \/ PageCb \/ PageIsl \/ InteractIsl \/ Compile

Spec == InitCrawl /\ [][NextCrawl]_vars

\* the scrolling crawler on the larger site, with a budget around FREQ_LIMIT
InitFreq ==
    /\ crawler = "isl"
    /\ home_url = FreqHome
    /\ max_pages \in FreqBudgets
    /\ pc = "launch"
    /\ visited = {}
    /\ frontier = <<Seed("isl", FreqHome)>>
    /\ pages_visited = 0
    /\ page_url = <<>>
    /\ extracted_hrefs = <<>>
    /\ link_freq = <<>>
    /\ global_links = {}
    /\ dispatched = <<>>
    /\ appended = <<Seed("isl", FreqHome)>>
    /\ nav_failed = {}
    /\ frontier_at_global = <<>>
    /\ new_links = <<>>
    /\ pdf = <<>>
    /\ NormIdle
    /\ FormIdle
    /\ AssocIdle
    /\ SideIdle

NextFreq == Launch \/ Dequeue \/ Goto \/ PageIsl \/ InteractIsl \/ Compile

SpecFreq == InitFreq /\ [][NextFreq]_vars

(***************************************************************************)
(* crawl_button.process_form_chain: the form-interaction loop of one page  *)
(***************************************************************************)

\* the most forms of a page, inputs and buttons of a form
MaxForms == 2

MaxInputs == 2

MaxButtons == 1

\* the screenshots the model keeps: later ones are taken but not told apart
MaxShots == 6

Forms == [inputs : 0..MaxInputs, buttons : 0..MaxButtons]

Doms == UNION {[1..k -> Forms] : k \in 0..MaxForms}

\* if inputs and buttons
Qualifies(form) == form.inputs > 0 /\ form.buttons > 0

\* a scan that takes the first form with inputs, with or without a button
FirstWithInputs(d) ==
    IF \E i \in 1..Len(d) : d[i].inputs > 0
    THEN CHOOSE i \in 1..Len(d) :
             d[i].inputs > 0 /\ \A j \in 1..(i - 1) : d[j].inputs = 0
    ELSE 0

\* for form in forms: ... if inputs and buttons: target_form = form; break
FirstQualifying(d) ==
    IF \E i \in 1..Len(d) : Qualifies(d[i])
    THEN CHOOSE i \in 1..Len(d) :
             Qualifies(d[i]) /\ \A j \in 1..(i - 1) : ~Qualifies(d[j])
    ELSE 0

\* screenshots.append(annotate_image(img_bytes, label))
ShotAppend(list, label) ==
    IF Len(list) < MaxShots THEN Append(list, label) ELSE list

\* What page.waitForNavigation({...}) returns: pyppeteer declares it async def,
\* so the call returns a coroutine object, whose attributes are these.
Coroutine ==
    [cr_await |-> "None", cr_code |-> "code", cr_frame |-> "frame",
     cr_running |-> FALSE, cr_origin |-> "None"]

\* asyncio.gather(page.waitForNavigation({...}).catch(lambda _: None), btn.click())
\* Python evaluates the arguments left to right: when reading .catch raises,
\* btn.click() is never called and the except clause swallows the error.
ClickIssued == GetAttr(Coroutine, "catch") # AttributeError

\* the pages a click that was issued may leave behind: the same forms, the
\* forms without the target, or another page
DomsAfterClick(d, t) ==
    {d, SubSeq(d, 1, t - 1) \o SubSeq(d, t + 1, Len(d))} \cup Doms

\* what openai.ChatCompletion.acreate does for one request
OracleOutcomes == {"answer", "error", "timeout"}

\* generate_mock_value: try: resp = await acreate(...); return resp...strip()
\* except: return "test"
generate_mock_value(oracle) == IF oracle = "answer" THEN "mock" ELSE "test"

\* forms = querySelectorAll("form"); for form in forms: inputs = ...: the
\* handles SCAN assigns on the page with forms d, t the form it takes
HandlesAfterScan(h, d, t) ==
    [h EXCEPT !.target_form = IF t = 0 THEN "none" ELSE "current",
              !.inputs = IF Len(d) = 0 THEN h.inputs ELSE "current"]

\* after CLICK every handle held was obtained before it
HandlesAfterClick(h) ==
    [n \in DOMAIN h |-> IF h[n] = "none" THEN "none" ELSE "before_click"]

InitForm ==
    /\ crawler = "cb"
    /\ fpc = "scan"
    /\ dom \in Doms
    /\ target = 0
    /\ fill_i = 0
    /\ shots = <<>>
    /\ ops = <<>>
    /\ typed = <<>>
    /\ handles = NoHandles
    /\ NormIdle
    /\ CrawlIdle
    /\ AssocIdle
    /\ SideIdle

\* SCAN: the head of the while loop.  querySelectorAll is outside every try.
Scan ==
    /\ fpc = "scan"
    /\ \E raises \in BOOLEAN :
          IF raises
          THEN fpc' = "raised" /\ UNCHANGED <<target, ops, typed, handles>>
          ELSE /\ target' = FirstQualifying(dom)
               /\ fpc' = IF FirstQualifying(dom) = 0 THEN "done" ELSE "fill"
               /\ ops' = IF FirstQualifying(dom) = 0 THEN ops ELSE <<>>
               /\ typed' = IF FirstQualifying(dom) = 0 THEN typed ELSE <<>>
               /\ handles' = HandlesAfterScan(handles, dom, FirstQualifying(dom))
    /\ fill_i' = 0
    /\ UNCHANGED <<crawler, dom, shots, outsideForm>>

\* FILL, one input: page.evaluate of its attributes (outside every try),
\* generate_mock_value (returns "test" on any error), click and type (in a
\* try: a failure there is swallowed and the input stays as it was)
FillInput ==
    /\ fpc = "fill"
    /\ fill_i < dom[target].inputs
    /\ \E outcome \in {"raises", "fill", "fill_failed"}, oracle \in OracleOutcomes :
          IF outcome = "raises"
          THEN fpc' = "raised" /\ UNCHANGED <<fill_i, ops, typed>>
          ELSE /\ fpc' = "fill"
               /\ fill_i' = fill_i + 1
               /\ ops' = Append(ops, outcome)
               /\ typed' = Append(typed, [oracle |-> oracle,
                                          value |-> generate_mock_value(oracle)])
    /\ UNCHANGED <<crawler, dom, target, shots, handles, outsideForm>>

\* the screenshot after the inputs are filled (outside every try)
ShotFilled ==
    /\ fpc = "fill"
    /\ fill_i = dom[target].inputs
    /\ \E raises \in BOOLEAN :
          IF raises
          THEN fpc' = "raised" /\ UNCHANGED <<shots, ops>>
          ELSE /\ fpc' = "highlight"
               /\ shots' = ShotAppend(shots, "Filled inputs on")
               /\ ops' = Append(ops, "shot_filled")
    /\ UNCHANGED <<crawler, dom, target, fill_i, typed, handles, outsideForm>>

\* HIGHLIGHT: buttons is queried and btn = buttons[0]; the outline is set on
\* it in a try (a failure is swallowed), the screenshot is outside it
Highlight ==
    /\ fpc = "highlight"
    /\ \E outcome \in {"raises", "highlight", "highlight_failed"} :
          IF outcome = "raises"
          THEN fpc' = "raised" /\ UNCHANGED shots /\ ops' = Append(ops, "highlight")
          ELSE /\ fpc' = "click"
               /\ shots' = ShotAppend(shots, "Highlight button on")
               /\ ops' = ops \o <<outcome, "shot_highlight">>
    /\ handles' = [handles EXCEPT !.btn = "current"]
    /\ UNCHANGED <<crawler, dom, target, fill_i, typed, outsideForm>>

\* what the try block of CLICK does: the wait and the click started together,
\* or the exception caught
ClickOps == IF ClickIssued THEN <<"wait", "click">> ELSE <<"click_failed">>

\* CLICK and the screenshot after it (outside every try)
Click ==
    /\ fpc = "click"
    /\ IF ClickIssued
       THEN dom' \in DomsAfterClick(dom, target)
       ELSE UNCHANGED dom
    /\ \E raises \in BOOLEAN :
          IF raises
          THEN fpc' = "raised" /\ UNCHANGED shots /\ ops' = ops \o ClickOps
          ELSE /\ fpc' = "clear"
               /\ shots' = ShotAppend(shots, "After click on")
               /\ ops' = ops \o ClickOps \o <<"shot_after">>
    /\ handles' = HandlesAfterClick(handles)
    /\ UNCHANGED <<crawler, target, fill_i, typed, outsideForm>>

\* SETTLE: the outline is removed, through the handle btn, in a try; the loop
\* starts over
ClearHighlight ==
    /\ fpc = "clear"
    /\ fpc' = "scan"
    /\ ops' = Append(ops, "clear")
    /\ UNCHANGED <<crawler, dom, target, fill_i, shots, typed, handles, outsideForm>>

NextForm == Scan \/ FillInput \/ ShotFilled \/ Highlight \/ Click \/ ClearHighlight

SpecForm == InitForm /\ [][NextForm]_vars

\* The event loop runs the coroutine on: every await of a driver call returns
\* or raises (navigation waits carry a timeout).
SpecFormLive == InitForm /\ [][NextForm]_vars /\ WF_vars(NextForm)

(***************************************************************************)
(* crawl_button.crawl_and_record with process_page step by step: the form  *)
(* chain of each page runs inside the visit                                *)
(***************************************************************************)

VisitHome == <<"http", ":", "/", "/", "h", "/">>

\* the forms a visited page may hold
VisitDoms ==
    { <<>>,
      <<[inputs |-> 1, buttons |-> 0]>>,
      <<[inputs |-> 2, buttons |-> 1]>>,
      <<[inputs |-> 0, buttons |-> 1], [inputs |-> 1, buttons |-> 1]>> }

\* the anchors a visited page may hold
VisitHrefLists ==
    { <<>>,
      << <<"http", ":", "/", "/", "h", "/">>, <<"/", "a">> >> }

InitVisit ==
    /\ crawler = "cb"
    /\ home_url = VisitHome
    /\ max_pages \in 0..MaxPages
    /\ pc = "launch"
    /\ visited = {}
    /\ frontier = <<Seed("cb", VisitHome)>>
    /\ pages_visited = 0
    /\ page_url = <<>>
    /\ extracted_hrefs = <<>>
    /\ link_freq = <<>>
    /\ global_links = {}
    /\ dispatched = <<>>
    /\ appended = <<Seed("cb", VisitHome)>>
    /\ nav_failed = {}
    /\ frontier_at_global = <<>>
    /\ new_links = <<>>
    /\ pdf = <<>>
    /\ NormIdle
    /\ FormIdle
    /\ AssocIdle
    /\ SideIdle

\* a call of process_form_chain that is not awaited: the caller goes on at once
ChainStarted(f) == f # "off"

\* await process_form_chain(...): process_page goes on when the chain returned
ChainReturned(f) == f = "done"

\* process_page after the navigation: the label, and process_form_chain
\* starts on the page's forms with the run's screenshot list
StartForms ==
    /\ pc = "page"
    /\ crawler = "cb"
    /\ pc' = "forms"
    /\ fpc' = "scan"
    /\ dom' \in VisitDoms
    /\ target' = 0
    /\ fill_i' = 0
    /\ ops' = <<>>
    /\ typed' = <<>>
    /\ handles' = NoHandles
    /\ UNCHANGED <<crawler, home_url, max_pages, visited, frontier, pages_visited,
                   page_url, extracted_hrefs, link_freq, global_links, dispatched,
                   appended, nav_failed, docVars, normVars, assocVars, sideVars,
                   frontier_at_global, shots>>

\* an exception of process_form_chain passes through process_page and
\* crawl_and_record, neither of which has a handler around the call
FormsRaised ==
    /\ pc = "forms"
    /\ fpc = "raised"
    /\ pc' = "aborted"
    /\ UNCHANGED <<crawler, home_url, max_pages, visited, frontier, pages_visited,
                   page_url, extracted_hrefs, link_freq, global_links, dispatched,
                   appended, nav_failed, outsideCrawl>>

\* the final screenshot of the page (outside every try)
FinalShot ==
    /\ pc = "forms"
    /\ ChainReturned(fpc)
    /\ \E raises \in BOOLEAN :
          IF raises
          THEN pc' = "aborted" /\ UNCHANGED shots
          ELSE pc' = "extract" /\ shots' = ShotAppend(shots, "No forms on")
    /\ UNCHANGED <<crawler, home_url, max_pages, visited, frontier, pages_visited,
                   page_url, extracted_hrefs, link_freq, global_links, dispatched,
                   appended, nav_failed, docVars, normVars, assocVars, sideVars,
                   frontier_at_global,
                   fpc, dom, target, fill_i, ops, typed, handles>>

\* the anchors are queried (outside every try), normalized and filtered;
\* process_page returns list(new_links), a set in some order
ExtractLinks ==
    /\ pc = "extract"
    /\ \E hrefs \in VisitHrefLists, raises \in BOOLEAN :
          IF raises
          THEN pc' = "aborted" /\ UNCHANGED new_links
          ELSE /\ pc' = "enqueue"
               /\ new_links' \in OrdersOf(NewLinks(hrefs, page_url, home_url))
    /\ UNCHANGED <<crawler, home_url, max_pages, visited, frontier, pages_visited,
                   page_url, extracted_hrefs, link_freq, global_links, dispatched,
                   appended, nav_failed, pdf, normVars, formVars, assocVars,
                   sideVars, frontier_at_global>>

\* for link in new_links: if link not in visited: frontier.append(link)
EnqueueLinks ==
    /\ pc = "enqueue"
    /\ pc' = "loop"
    /\ frontier' =
         EnqueueAll("cb", [q |-> frontier, log |-> <<>>],
                    new_links, visited, global_links).q
    /\ appended' = appended \o
         EnqueueAll("cb", [q |-> frontier, log |-> <<>>],
                    new_links, visited, global_links).log
    /\ UNCHANGED <<crawler, home_url, max_pages, visited, pages_visited, page_url,
                   extracted_hrefs, link_freq, global_links, dispatched,
                   nav_failed, outsideCrawl>>

NextVisit ==
    \/ Launch \/ Dequeue \/ Goto \/ StartForms
    \/ Scan \/ FillInput \/ ShotFilled \/ Highlight \/ Click \/ ClearHighlight
    \/ FormsRaised \/ FinalShot \/ ExtractLinks \/ EnqueueLinks \/ Compile

SpecVisit == InitVisit /\ [][NextVisit]_vars

\* The event loop runs crawl_and_record on: every await returns or raises.
SpecVisitLive == InitVisit /\ [][NextVisit]_vars /\ WF_vars(NextVisit)

(***************************************************************************)
(* The resolvers of the inputs a button depends on:                        *)
(* crawl_indigo_buttons.collect_related_input_ids and                      *)
(* selenium_crawl.find_associated_inputs                                   *)
(***************************************************************************)

Resolvers == {"indigo", "selenium"}

\* the inputs of the page, in document order, with their id, name and
\* placeholder attributes (<<>>: the input has no such attribute)
Inputs ==
    << [id |-> <<"email">>, name |-> <<"e">>, placeholder |-> <<>>],
       [id |-> <<"pass">>, name |-> <<>>, placeholder |-> <<>>],
       [id |-> <<>>, name |-> <<"q">>, placeholder |-> <<"find">>],
       [id |-> <<>>, name |-> <<>>, placeholder |-> <<"hint">>],
       [id |-> <<>>, name |-> <<>>, placeholder |-> <<>>] >>

\* the id attributes of the inputs, in document order
InputIds == [k \in DOMAIN Inputs |-> Inputs[k].id]

\* the values of a button's onclick attribute: none, f('#email','#pass'),
\* f('email',"pass"), g('pass'), h()
Handlers ==
    { <<>>,
      <<"f(", "'", "#", "email", "'", ",", "'", "#", "pass", "'", ")">>,
      <<"f(", "'", "email", "'", ",", "\"", "pass", "\"", ")">>,
      <<"g(", "'", "pass", "'", ")">>,
      <<"h()">> }

\* the inputs that may carry data-target = the button's id: none when the
\* button has no id, else at most one of those present
Targets(present, id) ==
    IF id = <<>> THEN {{}} ELSE {{}} \cup {{k} : k \in present}

\* the inputs inside the form around the button: the form is around the
\* closest container only, or around the whole page
FormsAround(in_form, near, present) ==
    IF in_form THEN {near, present} ELSE {{}}

\* a button and its page: the onclick and id attributes of the button,
\* whether it is inside a form and which inputs that form holds, which
\* inputs exist, which carry data-target = the button's id, which lie in the
\* button's closest div/section (near) and which in its outermost one (outer)
Buttons ==
    UNION { UNION { { [onclick |-> h, id |-> i, in_form |-> f, form |-> fi,
                       present |-> p, targeted |-> t, near |-> n, outer |-> o] :
                          h \in Handlers, fi \in FormsAround(f, n, p), o \in {n, p} } :
                      t \in Targets(p, i), n \in SUBSET p } :
            p \in SUBSET (DOMAIN Inputs), i \in {<<>>, <<"b">>}, f \in BOOLEAN }

QuoteChars == {"'", "\""}

\* the position of the first quote character of s from position i on, or 0
NextQuote(s, i) ==
    IF \E k \in i..Len(s) : s[k] \in QuoteChars
    THEN CHOOSE k \in i..Len(s) :
             s[k] \in QuoteChars /\ \A l \in i..(k - 1) : s[l] \notin QuoteChars
    ELSE 0

\* re.findall(r"['\"]([^'\"]+)['\"]", s) from position i on: a quote, one or
\* more characters that are no quotes, a quote (not necessarily the same one)
RECURSIVE FindQuoted(_, _)
FindQuotedFrom(s, i, j) ==
    IF j = 0 THEN <<>>
    ELSE IF j = i + 1 THEN FindQuoted(s, i + 1)
    ELSE <<SubSeq(s, i + 1, j - 1)>> \o FindQuoted(s, j + 1)

FindQuoted(s, i) ==
    IF i > Len(s) THEN <<>>
    ELSE IF s[i] \notin QuoteChars THEN FindQuoted(s, i + 1)
    ELSE FindQuotedFrom(s, i, NextQuote(s, i + 1))

\* the inputs of the set S that have an id: if (el.id), "input[id]"
WithId(S) == {k \in S : InputIds[k] # <<>>}

\* the ids of the inputs of the set S that have one, in document order
IdsOf(S) == SelectSeq(InputIds, LAMBDA x : x # <<>> /\ \E k \in S : InputIds[k] = x)

\* document.getElementById(id): the inputs present and the button itself
ElementIds(b) == ({InputIds[k] : k \in b.present} \cup {b.id}) \ {<<>>}

\* for rid in raw_ids: if exists: ids.append(rid)
InlineIds(b) ==
    SelectSeq(FindQuoted(b.onclick, 1), LAMBDA rid : rid \in ElementIds(b))

Returned(out, path) == [out |-> out, consulted |-> path]

\* a heuristic consulted: its name, the inputs it contributed and their number
Tier(t, S) == [tier |-> t, n |-> Cardinality(S), inputs |-> S]

\* collect_related_input_ids from the data-target heuristic on; path holds
\* the heuristics consulted so far
CollectFromData(b, path) ==
    IF b.id # <<>> /\ WithId(b.targeted) # {}
    THEN Returned(IdsOf(b.targeted), Append(path, Tier("data", WithId(b.targeted))))
    ELSE Returned(IdsOf(b.near),
                  path \o (IF b.id # <<>> THEN <<Tier("data", {})>> ELSE <<>>)
                       \o <<Tier("proximity", WithId(b.near))>>)

collect_related_input_ids(b) ==
    IF b.onclick # <<>> /\ InlineIds(b) # <<>>
    THEN Returned(InlineIds(b),
                  <<Tier("inline", {k \in b.present :
                                      \E j \in 1..Len(InlineIds(b)) :
                                          InlineIds(b)[j] = InputIds[k]})>>)
    ELSE CollectFromData(b,
            IF b.onclick # <<>> THEN <<Tier("inline", {})>> ELSE <<>>)

\* Python's None, returned for an input without id, name and placeholder
None == <<>>

\* build_input_selector: "input#id", else input[name="..."], else
\* input[placeholder="..."], else None
build_input_selector(inp) ==
    IF inp.id # <<>> THEN <<"input", "#">> \o inp.id
    ELSE IF inp.name # <<>> THEN <<"input", "[name=\"">> \o inp.name \o <<"\"]">>
    ELSE IF inp.placeholder # <<>>
    THEN <<"input", "[placeholder=\"">> \o inp.placeholder \o <<"\"]">>
    ELSE None

\* the inputs of the set S that get a selector: if sel: associated.add(sel)
Selectable(S) == {k \in S : build_input_selector(Inputs[k]) # None}

SelectorsOf(S) == {build_input_selector(Inputs[k]) : k \in Selectable(S)}

\* find_associated_inputs without the return that ends the form heuristic
FindAssociatedMerged(b) ==
    Returned(SelectorsOf(b.form \cup b.targeted \cup b.outer),
             <<Tier("form", Selectable(b.form))>>)

\* find_associated_inputs: the inputs of the enclosing form, or else those
\* with data-target = the button's id together with those of the container.
\* The container is the first node of ./ancestor::div | ./ancestor::section
\* in document order: the outermost such ancestor.
find_associated_inputs(b) ==
    IF b.in_form
    THEN Returned(SelectorsOf(b.form), <<Tier("form", Selectable(b.form))>>)
    ELSE Returned(SelectorsOf(b.targeted \cup b.outer),
                  (IF b.id # <<>>
                   THEN <<Tier("data", Selectable(b.targeted))>>
                   ELSE <<>>)
                  \o <<Tier("proximity", Selectable(b.outer))>>)

InitAssoc ==
    /\ crawler \in Resolvers
    /\ apc = "resolve"
    /\ button \in Buttons
    /\ related = <<>>
    /\ NormIdle
    /\ CrawlIdle
    /\ new_links = <<>>
    /\ pdf = <<>>
    /\ FormIdle
    /\ SideIdle

\* collect_related_input_ids(page, btn): page.evaluate is outside every try
Collect ==
    /\ apc = "resolve"
    /\ crawler = "indigo"
    /\ \E raises \in BOOLEAN :
          IF raises
          THEN apc' = "raised" /\ UNCHANGED related
          ELSE apc' = "end" /\ related' = collect_related_input_ids(button)
    /\ UNCHANGED <<crawler, button, outsideAssoc>>

\* find_associated_inputs(driver, btn)
FindAssociated ==
    /\ apc = "resolve"
    /\ crawler = "selenium"
    /\ \E raises \in BOOLEAN :
          IF raises
          THEN apc' = "raised" /\ UNCHANGED related
          ELSE apc' = "end" /\ related' = find_associated_inputs(button)
    /\ UNCHANGED <<crawler, button, outsideAssoc>>

NextAssoc == Collect \/ FindAssociated

SpecAssoc == InitAssoc /\ [][NextAssoc]_vars

(***************************************************************************)
(* The infinite-scroll pass of a page visit                                *)
(* (infinite_scroll_crawler_links_butt.py 203-214, the same loop in        *)
(* infinite_scroll_crawler.py 109-120)                                     *)
(***************************************************************************)

\* the largest max_scrolls argument
MaxScrolls == 3

\* the page heights document.body.scrollHeight may give: 1..MaxHeight
MaxHeight == 3

Heights == 1..MaxHeight

\* a pass that goes on when the height did not change
ScrollNeverBreaks(new_height, last_height) == FALSE

\* if new_height == last_height: break
ScrollBreaks(new_height, last_height) == new_height = last_height

\* for i in range(1, max_scrolls + 1): there is a next value of i
RangeHasNext(i, max) == i < max

InitScroll ==
    /\ crawler = "isl"
    /\ \E max \in 0..MaxScrolls :
          scroll = [pc |-> "start", max_scrolls |-> max, i |-> 0, last_height |-> 0,
                    heights |-> <<>>, screenshots |-> <<>>]
    /\ rec = RecOff
    /\ frontier_at_global = <<>>
    /\ NormIdle
    /\ CrawlIdle
    /\ FormIdle
    /\ AssocIdle

\* last_height = await page.evaluate("() => document.body.scrollHeight"),
\* outside every try
ReadHeight ==
    /\ scroll.pc = "start"
    /\ \E h \in Heights, raises \in BOOLEAN :
          scroll' = IF raises
                    THEN [scroll EXCEPT !.pc = "raised"]
                    ELSE [scroll EXCEPT !.pc = "loop", !.last_height = h,
                                        !.heights = <<h>>]
    /\ UNCHANGED <<crawler, rec, frontier_at_global, normVars, crawlVars, docVars,
                   formVars, assocVars>>

\* one pass of the for loop: scrollTo, sleep, the new height, the screenshot,
\* the break test; or the end of the range.  The driver calls are outside
\* every try: one that raises ends the pass before the screenshot is appended.
ScrollStep ==
    /\ scroll.pc = "loop"
    /\ IF RangeHasNext(scroll.i, scroll.max_scrolls)
       THEN \E new_height \in Heights, raises \in BOOLEAN :
              scroll' =
                IF raises
                THEN [scroll EXCEPT !.pc = "raised"]
                ELSE [scroll EXCEPT
                        !.i = scroll.i + 1,
                        !.heights = Append(scroll.heights, new_height),
                        !.screenshots = Append(scroll.screenshots, scroll.i + 1),
                        !.pc = IF ScrollBreaks(new_height, scroll.last_height)
                               THEN "done" ELSE "loop",
                        !.last_height = IF ScrollBreaks(new_height, scroll.last_height)
                                        THEN scroll.last_height ELSE new_height]
       ELSE scroll' = [scroll EXCEPT !.pc = "done"]
    /\ UNCHANGED <<crawler, rec, frontier_at_global, normVars, crawlVars, docVars,
                   formVars, assocVars>>

NextScroll == ReadHeight \/ ScrollStep

SpecScroll == InitScroll /\ [][NextScroll]_vars

\* the event loop runs the pass on: every await returns or raises
SpecScrollLive == InitScroll /\ [][NextScroll]_vars /\ WF_vars(NextScroll)

(***************************************************************************)
(* azure_selenium_generator.record_activity, the on_step_end hook of the   *)
(* agent's run                                                             *)
(***************************************************************************)

\* the most steps the agent takes (max_steps of agent.run)
MaxSteps == 3

\* the most actions of one model output
MaxActions == 2

\* an entry of actionslist: a slice of the agent's model actions, or None
Entry(actions) == [is_none |-> FALSE, actions |-> actions]

NoneEntry == [is_none |-> TRUE, actions |-> <<>>]

\* the actions of the model output of step s: the step and the position
ActionsOf(s, m) == [j \in 1..m |-> <<s, j>>]

\* model_actions_json[-abs(lastentry):]; a slice from -0 is the whole list
LastEntries(history, lastentry) ==
    IF lastentry = 0 \/ lastentry >= Len(history) THEN history
    ELSE SubSeq(history, Len(history) - lastentry + 1, Len(history))

\* model_actions_json_last_elem = None
\* if len(model_actions_json) > 0:
\*     model_actions_json_last_elem = model_actions_json[-abs(lastentry):]
LastElem(history, lastentry) ==
    IF Len(history) > 0 THEN Entry(LastEntries(history, lastentry)) ELSE NoneEntry

\* a hook that takes the last action back whenever the goal was not reached
ShouldPopIgnoringMemory(success, error, list) == ~success /\ list # <<>>

\* if "Success" not in prev_result:
\*     if "error message" not in prev_memory:
\*         if actionslist: actionslist.pop()
ShouldPop(success, error, list) == ~success /\ ~error /\ list # <<>>

AfterPop(success, error, list) ==
    IF ShouldPop(success, error, list) THEN SubSeq(list, 1, Len(list) - 1) ELSE list

InitRecord ==
    /\ crawler = "azure"
    /\ rec = [pc |-> "run", steps |-> 0, history |-> <<>>, last |-> NoOutput,
              actionslist |-> <<>>, screenshots |-> <<>>]
    /\ scroll = ScrollOff
    /\ frontier_at_global = <<>>
    /\ NormIdle
    /\ CrawlIdle
    /\ FormIdle
    /\ AssocIdle

\* one step of the agent and the hook at its end: the model output with m
\* actions, whose evaluation of the previous goal contains "Success" or not
\* and whose memory contains "error message" or not, is in the history when
\* record_activity runs.  take_screenshot is the hook's first statement: if
\* it raises nothing is recorded.
RecordActivity ==
    /\ rec.pc = "run"
    /\ rec.steps < MaxSteps
    /\ \E m \in 0..MaxActions, success \in BOOLEAN, error \in BOOLEAN,
          raises \in BOOLEAN :
          rec' =
            IF raises
            THEN [rec EXCEPT !.pc = "raised"]
            ELSE [rec EXCEPT
                    !.steps = rec.steps + 1,
                    !.history = rec.history \o ActionsOf(rec.steps + 1, m),
                    !.last = [m |-> m, success |-> success, error |-> error],
                    !.actionslist =
                        Append(AfterPop(success, error, rec.actionslist),
                               LastElem(rec.history \o ActionsOf(rec.steps + 1, m), m)),
                    !.screenshots = Append(rec.screenshots, rec.steps + 1)]
    /\ UNCHANGED <<crawler, scroll, frontier_at_global, normVars, crawlVars, docVars,
                   formVars, assocVars>>

\* agent.run returns: the task is done or max_steps is reached
RunReturns ==
    /\ rec.pc = "run"
    /\ rec' = [rec EXCEPT !.pc = "done"]
    /\ UNCHANGED <<crawler, scroll, frontier_at_global, normVars, crawlVars, docVars,
                   formVars, assocVars>>

NextRecord == RecordActivity \/ RunReturns

SpecRecord == InitRecord /\ [][NextRecord]_vars

(***************************************************************************)
(* Properties of the traversal loop (Spec)                                 *)
(***************************************************************************)

NoDuplicates(q) == \A i, j \in 1..Len(q) : q[i] = q[j] => i = j

\* the position of the first occurrence of x in q
FirstAt(q, x) ==
    CHOOSE i \in 1..Len(q) : q[i] = x /\ \A j \in 1..(i - 1) : q[j] # x

\* C1: during one run of crawl_and_record a normalized URL is dispatched to a
\* page visit at most once: no URL occurs twice among the dispatched URLs, and
\* every dispatched URL is in the visited set from then on.
C1_DispatchedAtMostOnce ==
    /\ NoDuplicates(dispatched)
    /\ Range(dispatched) \subseteq visited

\* C1 witness: the crawl ended with the frontier drained after a later page
\* listed the URL that was visited first, so the link found again was not
\* dispatched again.
C1_RediscoveredNotRevisited ==
    /\ pc = "done"
    /\ Len(dispatched) >= 2
    /\ frontier = <<>>
    /\ pages_visited < max_pages
    /\ \E i \in 1..Len(extracted_hrefs) : extracted_hrefs[i] = dispatched[1]

\* C2, the state part: at most max_pages URLs are dispatched, every dispatched
\* URL is counted, one whose navigation failed included, and the loop is left
\* only with the frontier empty or the budget reached.
BudgetRespected ==
    /\ Len(dispatched) <= max_pages
    /\ pages_visited = Len(dispatched)
    /\ nav_failed \subseteq Range(dispatched)
    /\ pc \in {"compile", "done"} => (frontier = <<>> \/ pages_visited >= max_pages)

\* C2, the step part: at the head of the loop with the frontier empty or the
\* budget reached the loop is left at once and nothing more is dispatched; a
\* URL is dispatched only from a non-empty frontier under the budget.
BudgetStep ==
    /\ (pc = "loop" /\ (frontier = <<>> \/ pages_visited >= max_pages))
          => (pc' = "compile" /\ dispatched' = dispatched /\ frontier' = frontier)
    /\ dispatched' # dispatched => (frontier # <<>> /\ pages_visited < max_pages)

\* C2: the page-visit budget is a hard cap: never more than max_pages URLs are
\* dispatched, a failed navigation counts as a visit, and the loop stops as
\* soon as the frontier is empty or the budget is reached, also when the
\* frontier still holds URLs.
C2_BudgetHardCap == []BudgetRespected /\ [][BudgetStep]_vars

\* C2 witness: the crawl ended on its budget with URLs left in the frontier,
\* and a visit whose navigation failed was one of the counted visits.
C2_StoppedOnBudget ==
    /\ pc = "done"
    /\ max_pages >= 2
    /\ pages_visited = max_pages
    /\ frontier # <<>>
    /\ nav_failed # {}

C10_FifoOrder ==
    /\ appended[1] = Seed(crawler, home_url)
    /\ Len(dispatched) > 0 => dispatched[1] = appended[1]
    /\ Len(frontier) <= Len(appended)
    /\ frontier = SubSeq(appended, Len(appended) - Len(frontier) + 1, Len(appended))
    /\ \A i, j \in 1..Len(dispatched) :
          i < j => FirstAt(appended, dispatched[i]) < FirstAt(appended, dispatched[j])

\* C10 witness: three pages were visited, the seed and then the two links its
\* page appended, in the order they were appended.
C10_ThreeVisitedInOrder ==
    /\ pc = "done"
    /\ Len(dispatched) = 3
    /\ Len(appended) >= 3
    /\ dispatched = SubSeq(appended, 1, 3)
    /\ nav_failed = {}

\* the positions of crawl_and_record inside a page visit, after the navigation
PageWork == {"page", "interact", "forms", "extract", "enqueue"}

\* no work is done on a page whose navigation failed, and its URL stays visited
FailedPageSkipped ==
    /\ pc \in PageWork => page_url \notin nav_failed
    /\ nav_failed \subseteq visited

\* the step in which a navigation fails goes back to the head of the loop and
\* records nothing: no screenshot, no link, no count
NavFailureStep ==
    nav_failed' # nav_failed
        => /\ pc' = "loop"
           /\ frontier' = frontier
           /\ appended' = appended
           /\ link_freq' = link_freq
           /\ global_links' = global_links
           /\ shots' = shots
           /\ ops' = ops
           /\ page_url \in visited'

\* C21: when the navigation to a dequeued URL fails the rest of that page's
\* work is skipped (no interaction, no screenshot, no link extracted or
\* enqueued, no frequency update), the URL stays in the visited set and the
\* traversal goes on with the next frontier item.
C21_FailedNavigationSkipsPage == []FailedPageSkipped /\ [][NavFailureStep]_vars

\* C21 witness: after a failed navigation a later frontier item is being visited
C21_NextItemVisitedAfterFailure ==
    /\ nav_failed # {}
    /\ pc = "page"
    /\ page_url \notin nav_failed

\* C23: when the browser launch fails, crawl_and_record reports the failure
\* and returns normally with the run aborted: no page is visited, no
\* screenshot is recorded and no document is compiled.
C23_LaunchFailureReturns ==
    pc \in {"launch_failed", "launch_raised"}
        => /\ pc = "launch_failed"
           /\ dispatched = <<>>
           /\ shots = <<>>
           /\ pdf = <<>>

\* C20: no failure of a driver operation inside a page visit aborts the
\* traversal loop: crawl_and_record is never left by an exception.
C20_NoDriverFailureAborts == pc # "aborted"

\* at the top of the loop the counter is the size of the visited set
CounterIsVisitedSize == pc = "loop" => pages_visited = Cardinality(visited)

\* no step takes a URL out of the visited set
VisitedGrows == visited \subseteq visited'

\* the step that dequeues a URL already visited, or an empty entry
DequeuesVisitedOrEmpty ==
    /\ pc = "loop"
    /\ LoopContinues(frontier, pages_visited, max_pages)
    /\ (Head(frontier) \in visited \/ Head(frontier) = <<>>)

SkipChangesNothing ==
    DequeuesVisitedOrEmpty => (visited' = visited /\ pages_visited' = pages_visited)

\* C35: at the top of the traversal loop the page counter equals the size of
\* the visited set, the visited set only grows, and dequeuing a URL that is
\* already visited, or an empty entry, changes neither of the two.
C35_CounterMatchesVisited ==
    /\ []CounterIsVisitedSize
    /\ [][VisitedGrows]_vars
    /\ [][SkipChangesNothing]_vars

(***************************************************************************)
(* Properties of the frequency table and the global links (SpecFreq)       *)
(***************************************************************************)

\* link_freq[link] of the defaultdict: 0 for a key never counted
CountOf(freq, link) == IF link \in DOMAIN freq THEN freq[link] ELSE 0

\* the step of PageIsl in which the page's links are extracted
ExtractStep == pc = "page" /\ pc' = "interact"

\* C11, the state part: global_links is empty while fewer than FREQ_LIMIT
\* pages have been visited.
GlobalEmptyBeforeK == pages_visited < FREQ_LIMIT => global_links = {}

\* C11, the step part: global_links changes only in the extraction step of
\* page FREQ_LIMIT and only from the empty set; while global_links is empty
\* every extracted link that is not visited is in the frontier afterwards.
GlobalFrozenStep ==
    /\ global_links' # global_links
          => (ExtractStep /\ pages_visited = FREQ_LIMIT /\ global_links = {})
    /\ (ExtractStep /\ global_links' = {})
          => \A i \in 1..Len(extracted_hrefs') :
                extracted_hrefs'[i] \in visited \cup Range(frontier')

\* C11: GlobalLinkSet is empty in every state before the K-th page is visited,
\* never gains or loses a member once computed, and stays empty (suppressing
\* no link) when fewer than K pages are visited.
C11_GlobalEmptyThenFrozen == []GlobalEmptyBeforeK /\ [][GlobalFrozenStep]_vars

\* C11 witness: the run ended after a page beyond the K-th was visited, with
\* global links computed at the K-th.
C11_GlobalKeptAfterK ==
    /\ pc = "done"
    /\ pages_visited = FREQ_LIMIT + 1
    /\ global_links # {}

\* the visit of page number FREQ_LIMIT is over
KthVisitOver ==
    \/ pages_visited > FREQ_LIMIT
    \/ pages_visited = FREQ_LIMIT /\ pc \in {"interact", "loop", "compile", "done"}

\* C12: in a run that visits K pages global_links is computed at the visit of
\* the K-th page whatever the outcome of its navigation: once that visit is
\* over global_links holds every link counted at least K-1 times.
C12_ComputedAtKthVisit ==
    KthVisitOver
        => global_links = {l \in DOMAIN link_freq : link_freq[l] >= FREQ_LIMIT - 1}

\* C13, the step part: a visited page among the first K adds 1 to the count
\* of each link it contains, however many anchors point to it, and nothing to
\* the other counts.
CountsPagesStep ==
    (ExtractStep /\ pages_visited <= FREQ_LIMIT)
        => \A l \in DOMAIN link_freq' :
              CountOf(link_freq', l) =
                  CountOf(link_freq, l)
                  + (IF l \in Range(extracted_hrefs') THEN 1 ELSE 0)

\* C13, the state part: after the K-th page global_links is the set of links
\* counted at least K-1 times.
GlobalIsFrequent ==
    global_links # {}
        => global_links = {l \in DOMAIN link_freq : link_freq[l] >= FREQ_LIMIT - 1}

\* C13: the count of a link is the number of the first K visited pages that
\* contain it (a page contributes at most 1), and global_links is the set of
\* links in at least K-1 of them.
C13_CountIsPagesContaining == []GlobalIsFrequent /\ [][CountsPagesStep]_vars

\* C14: a link is appended to the frontier only if it is not visited, not
\* already queued and not in global_links as computed by then, the links of
\* the K-th page included.
AppendStep ==
    \A i \in (Len(appended) + 1)..Len(appended') :
        /\ appended'[i] \notin global_links'
        /\ appended'[i] \notin visited
        /\ appended'[i] \notin Range(frontier)
        /\ \A j \in (Len(appended) + 1)..(i - 1) : appended'[j] # appended'[i]

\* C14: enqueueing is a no-op for a visited, queued or global link: no member
\* of global_links is appended to the frontier once it is computed, and the
\* frontier never holds a link twice.
C14_NoGlobalLinkEnqueued == [][AppendStep]_vars

\* C14 witness: the K-th page listed a link that its own visit made global,
\* and a link that was appended.
C14_KthPageListsGlobal ==
    /\ pc = "interact"
    /\ pages_visited = FREQ_LIMIT
    /\ \E i \in 1..Len(extracted_hrefs) : extracted_hrefs[i] \in global_links
    /\ \E i \in 1..Len(extracted_hrefs) :
          /\ extracted_hrefs[i] \notin global_links
          /\ appended[Len(appended)] = extracted_hrefs[i]


(***************************************************************************)
(* Properties of the form chain (SpecFormLive)                             *)
(***************************************************************************)

\* C3: process_form_chain always terminates, also on a page whose qualifying
\* form is still found by SCAN after the click: every run of the chain comes
\* to an end (it returns, or an exception leaves it).
C3_FormChainTerminates == <>(fpc \in {"done", "raised"})

\* the number of entries of q that are in the set S
CountIn(q, S) == Cardinality({i \in 1..Len(q) : q[i] \in S})

\* a form with at least one input and at least one button
HasInputAndButton(form) == form.inputs >= 1 /\ form.buttons >= 1

\* the page holds exactly one form with inputs and buttons
OneFormPage == Cardinality({i \in 1..Len(dom) : HasInputAndButton(dom[i])}) = 1

FillOps == {"fill", "fill_failed"}

\* C15: on a page whose only qualifying form has N inputs and one button the
\* loop performs exactly N fill operations before a single click of the
\* button: when the iteration has taken its after-click screenshot, its
\* operations hold N fills, then one click.
C15_NFillsThenOneClick ==
    (OneFormPage /\ fpc = "clear")
        => /\ CountIn(ops, FillOps) = dom[target].inputs
           /\ CountIn(ops, {"click"}) = 1
           /\ \A i, j \in 1..Len(ops) :
                 (ops[i] \in FillOps /\ ops[j] = "click") => i < j

\* C16: in every iteration in which SCAN finds a form its first button is
\* highlighted and then clicked exactly once, the click coming after the
\* highlight and before the after-click screenshot.
C16_HighlightThenClickOnce ==
    fpc = "clear"
        => /\ CountIn(ops, {"click"}) = 1
           /\ \E h, c, a \in 1..Len(ops) :
                 /\ h < c
                 /\ c < a
                 /\ ops[h] \in {"highlight", "highlight_failed"}
                 /\ ops[c] = "click"
                 /\ ops[a] = "shot_after"

\* C17: in CLICK the navigation wait and the click are started together
\* before the loop goes on to SETTLE.
C17_WaitAndClickStarted ==
    fpc = "clear"
        => \E i \in 1..(Len(ops) - 1) : ops[i] = "wait" /\ ops[i + 1] = "click"

\* C18: SCAN selects the first form in document order that has at least one
\* input and one button, skipping earlier forms that lack either; on a page
\* without such a form the loop goes to DONE, which it reaches only then,
\* without a fill, a highlight, a click or a screenshot.
C18_ScanFirstQualifying ==
    /\ fpc \in {"fill", "highlight", "click", "clear"}
          => /\ target \in 1..Len(dom)
             /\ HasInputAndButton(dom[target])
             /\ \A j \in 1..(target - 1) : ~HasInputAndButton(dom[j])
    /\ (\A i \in 1..Len(dom) : ~HasInputAndButton(dom[i]))
          => (fpc \in {"scan", "done", "raised"} /\ ops = <<>> /\ shots = <<>>)
    /\ fpc = "done" => \A i \in 1..Len(dom) : ~HasInputAndButton(dom[i])

\* C18 witness: SCAN passed over a first form with inputs and no button and
\* took the second form.
C18_SkippedFormWithoutButton ==
    /\ fpc = "fill"
    /\ target = 2
    /\ dom[1].inputs > 0
    /\ dom[1].buttons = 0

\* C19, the step: the SCAN that follows an iteration in which a click or a
\* type failed does not select the same form again.
AdvancesPastFailedForm ==
    (fpc = "scan" /\ CountIn(ops, {"fill_failed", "click_failed"}) > 0)
        => (fpc' = "raised" \/ target' # target)

\* C19: a failure to click or to type in one iteration is caught and the
\* loop advances past the failing form: the next SCAN does not select the
\* same form.
C19_FailedFormNotRescanned == [][AdvancesPastFailedForm]_vars


\* every value typed after a failed request of the oracle is the literal "test"
FailedOracleTypesTest ==
    \A i \in 1..Len(typed) :
        typed[i].oracle # "answer" => typed[i].value = "test"

\* the oracle answered a request of the current iteration
OracleAnswered == \E i \in 1..Len(typed) : typed[i].oracle = "answer"

\* C22: when the mock-value oracle fails on every request, every input is
\* typed with the literal "test", no oracle failure leaves
\* generate_mock_value, and the form-interaction loop still reaches DONE:
\* a run of the loop reaches DONE unless the oracle answers at some time or a
\* driver call raises.
C22_OracleDownStillDone ==
    /\ []FailedOracleTypesTest
    /\ <>(fpc = "done" \/ fpc = "raised" \/ OracleAnswered)

\* the handles an operation of the step uses were obtained since the last CLICK
UsesCurrentHandles ==
    /\ (fpc = "fill" /\ fill_i' = fill_i + 1)
          => (handles.target_form = "current" /\ handles.inputs = "current")
    /\ (fpc = "click" /\ fpc' = "clear") => handles.btn = "current"
    /\ (fpc = "clear" /\ fpc' = "scan") => handles.btn = "current"

\* C29: no DOM handle obtained before a CLICK is used after that CLICK: the
\* form, its inputs and its button are obtained by queries of the same
\* iteration, and no operation after the click, the clearing of the highlight
\* included, uses a handle obtained before it.
C29_NoHandleAcrossClick == [][UsesCurrentHandles]_vars

(***************************************************************************)
(* Properties of the page visit and of the document (SpecVisit)            *)
(***************************************************************************)

IsPrefix(a, b) == Len(a) <= Len(b) /\ SubSeq(b, 1, Len(a)) = a

\* a step leaves the record as it is or adds one entry at its end
RecordAppendOnly == IsPrefix(shots, shots') /\ Len(shots') <= Len(shots) + 1

\* the document is written after the loop, from the record as it then is
CompileStep == pdf' # pdf => (pc = "compile" /\ shots' = shots)

\* at most one document, one page per recorded screenshot in recording order;
\* none when nothing was recorded
CompiledOnceAtEnd ==
    /\ Len(pdf) <= 1
    /\ pdf # <<>> => (pc = "done" /\ pdf[1].pages = shots /\ shots # <<>>)
    /\ pc = "done" => (pdf = <<>> <=> shots = <<>>)

ScenarioSeedVisit ==
    /\ pc = "forms"
    /\ max_pages = 3
    /\ pages_visited = 1
    /\ page_url = Seed("cb", VisitHome)
    /\ dom = <<[inputs |-> 2, buttons |-> 1]>>

ScenarioOutcome ==
    /\ pc = "done"
    /\ pages_visited = 2
    /\ Len(frontier) <= 1
    /\ Len(shots) >= 3

\* C27: with budget 3 and a seed page holding one form (2 inputs, 1 button)
\* whose submission leads to a second in-domain page, the run visits exactly
\* 2 pages, ends with the frontier empty or holding 1 unvisited link, and
\* has recorded at least 3 screenshots (unless a driver call fails and ends
\* the run).
C27_ScenarioVisitsTwoPages ==
    ScenarioSeedVisit ~> (ScenarioOutcome \/ pc = "aborted")

FormsRunning == fpc \in {"scan", "fill", "highlight", "click", "clear"}

\* within a visit: the form chain runs, and only after it has returned are
\* the links extracted and enqueued
VisitInOrder ==
    /\ FormsRunning => pc = "forms"
    /\ pc \in {"extract", "enqueue"} => fpc = "done"

\* a page is dequeued for a visit at the head of the loop, with no form chain
\* running; links are collected in the extraction and appended to the
\* frontier after it
VisitStepsInOrder ==
    /\ dispatched' # dispatched => (pc = "loop" /\ ~FormsRunning)
    /\ new_links' # new_links => (pc = "extract" /\ fpc = "done")
    /\ appended' # appended => (pc = "enqueue" /\ fpc = "done")

IsShotOp(x) == x \in {"shot_filled", "shot_highlight", "shot_after"}

\* the screenshots of an iteration that got to its end
IterationShots ==
    fpc = "clear"
        => SelectSeq(ops, IsShotOp) = <<"shot_filled", "shot_highlight", "shot_after">>

\* a visit that got past the form chain has "No forms on" as its last entry
FinalShotLast ==
    pc \in {"extract", "enqueue"} => shots[Len(shots)] = "No forms on"

\* C30: each iteration that finds a target appends the three screenshots
\* "Filled inputs on", "Highlight button on", "After click on" in this order,
\* and every page visit whose navigation succeeds appends one "No forms on"
\* screenshot after them (unless a driver call fails and ends the run).
C30_ThreePerIterationPlusFinal ==
    /\ []IterationShots
    /\ []FinalShotLast
    /\ (pc = "forms") ~> (pc \in {"extract", "aborted"})

(***************************************************************************)
(* Properties of the resolvers (SpecAssoc)                                 *)
(***************************************************************************)

\* the button of the scenario: its handler refers to '#email' and '#pass'
\* and both inputs are on the page
HandlerNamesBothInputs ==
    /\ button.onclick = <<"f(", "'", "#", "email", "'", ",", "'", "#", "pass", "'", ")">>
    /\ button.present = {1, 2}

\* C24: for a button whose inline onclick handler references '#email' and
\* '#pass', on a page with elements of ids email and pass,
\* collect_related_input_ids returns exactly the ids email and pass from
\* the inline-handler heuristic and consults no other heuristic.
C24_InlineHandlerIdsReturned ==
    (crawler = "indigo" /\ apc = "end" /\ HandlerNamesBothInputs)
        => /\ related.out = << <<"email">>, <<"pass">> >>
           /\ Len(related.consulted) = 1
           /\ related.consulted[1].tier = "inline"

\* C25: for every button the result is the output of one heuristic, the
\* first that yields something: a later heuristic is consulted only when
\* every earlier one returned nothing.
C25_OneTierPerButton ==
    apc = "end"
        => \A i, j \in 1..Len(related.consulted) :
               i < j => related.consulted[i].n = 0

\* the inputs of the set S that the resolver can name: those with an id for
\* collect_related_input_ids, those with an id, a name or a placeholder for
\* find_associated_inputs
Nameable(S) ==
    IF crawler = "indigo"
    THEN {k \in S : Inputs[k].id # <<>>}
    ELSE {k \in S : Inputs[k].id # <<>> \/ Inputs[k].name # <<>>
                        \/ Inputs[k].placeholder # <<>>}

\* C31: the proximity heuristic takes the nearest enclosing div or section
\* of the button as the container, never a more distant ancestor, and
\* contributes the inputs within that container only.
C31_ProximityUsesNearestContainer ==
    apc = "end"
        => \A k \in 1..Len(related.consulted) :
               related.consulted[k].tier = "proximity"
                   => related.consulted[k].inputs = Nameable(button.near)

\* C32: for a button with a form ancestor find_associated_inputs returns
\* exactly the selectors of the form's inputs that have an id, a name or a
\* placeholder; the data-target and the container heuristic add nothing.
C32_FormInputsOnly ==
    (crawler = "selenium" /\ apc = "end" /\ button.in_form)
        => /\ related.out =
                  {build_input_selector(Inputs[k]) : k \in Nameable(button.form)}
           /\ Len(related.consulted) = 1
           /\ related.consulted[1].tier = "form"

\* a form with an input that has no id, name or placeholder, on a page where
\* a data-target input and the outer container lie outside the form
C32_FormWithSkippedInput ==
    /\ crawler = "selenium"
    /\ apc = "end"
    /\ button.in_form
    /\ 5 \in button.form
    /\ Nameable(button.form) # {}
    /\ ~(Nameable(button.targeted) \subseteq button.form)
    /\ ~(Nameable(button.outer) \subseteq button.form)
    /\ Cardinality(related.out) = Cardinality(Nameable(button.form))

(***************************************************************************)
(* GlobalLinkSet and the frontier (SpecFreq)                               *)
(***************************************************************************)

\* the URLs dispatched after global_links was computed
VisitedAfterComputed(snap) ==
    {dispatched[k] : k \in (snap.n + 1)..Len(dispatched)}

\* C37: suppression by GlobalLinkSet is not retroactive, but it is the only
\* way a global link is visited late: every member of global_links that is
\* visited after the set was computed was in the frontier at the moment the
\* set was computed.
C37_LateGlobalVisitsWereQueued ==
    \A s \in 1..Len(frontier_at_global) :
        \A u \in VisitedAfterComputed(frontier_at_global[s]) :
            u \in global_links => u \in Range(frontier_at_global[s].frontier)

\* a global link that was in the frontier when the set was computed is
\* visited as the next page
C37_QueuedGlobalLinkVisited ==
    /\ Len(frontier_at_global) = 1
    /\ Len(dispatched) > frontier_at_global[1].n
    /\ dispatched[Len(dispatched)] \in global_links
    /\ dispatched[Len(dispatched)] \in Range(frontier_at_global[1].frontier)

(***************************************************************************)
(* Properties of the scroll pass (SpecScrollLive)                          *)
(***************************************************************************)

\* the pass has ended: the loop is left, or a driver call raised
ScrollEnded == scroll.pc \in {"done", "raised"}

\* the step k of the pass left the page height as it was
HeightUnchangedAt(k) == scroll.heights[k + 1] = scroll.heights[k]

\* no more than max_scrolls steps, and one screenshot for each step performed,
\* labelled with the number of the step
StepsAndScreenshots ==
    /\ scroll.i <= scroll.max_scrolls
    /\ scroll.screenshots = [k \in 1..scroll.i |-> k]
    /\ scroll.pc \in {"loop", "done"} => Len(scroll.heights) = scroll.i + 1

\* a step that leaves the height unchanged is the last one, and the loop is
\* left only after such a step or after max_scrolls steps
StopsAtFirstUnchanged ==
    /\ scroll.pc = "loop" => \A k \in 1..scroll.i : ~HeightUnchangedAt(k)
    /\ scroll.pc = "done"
           => /\ \A k \in 1..(scroll.i - 1) : ~HeightUnchangedAt(k)
              /\ scroll.i = scroll.max_scrolls
                    \/ (scroll.i >= 1 /\ HeightUnchangedAt(scroll.i))

\* C33: the infinite-scroll pass on a page always terminates: it performs at
\* most max_scrolls scroll steps, stops at the first step after which the page
\* height is unchanged, and records exactly one screenshot per step performed,
\* the final unchanged step included.
C33_ScrollPassTerminates ==
    /\ []StepsAndScreenshots
    /\ []StopsAtFirstUnchanged
    /\ <>ScrollEnded

\* a pass that stopped at its second step, before max_scrolls, because the
\* height did not change, with two screenshots
C33_StoppedOnUnchangedHeight ==
    /\ scroll.pc = "done"
    /\ scroll.i = 2
    /\ scroll.max_scrolls > 2
    /\ HeightUnchangedAt(2)
    /\ Len(scroll.screenshots) = 2

(***************************************************************************)
(* Properties of record_activity (SpecRecord)                              *)
(***************************************************************************)

\* a step of the agent completed: the hook ran to its end
StepCompleted == rec'.steps = rec.steps + 1

\* the condition under which the last recorded action is taken back
TakesBack ==
    /\ ~rec'.last.success
    /\ ~rec'.last.error
    /\ rec.actionslist # <<>>

\* the list before the new entry is the old one without its last entry
\* exactly when TakesBack holds, and else the old one
PopRule ==
    StepCompleted =>
        /\ Len(rec'.actionslist) >= 1
        /\ SubSeq(rec'.actionslist, 1, Len(rec'.actionslist) - 1) =
              IF TakesBack
              THEN SubSeq(rec.actionslist, 1, Len(rec.actionslist) - 1)
              ELSE rec.actionslist

NeverShrinks == Len(rec'.actionslist) >= Len(rec.actionslist)

RecordedCounts ==
    /\ rec.steps >= 1 => (1 <= Len(rec.actionslist) /\ Len(rec.actionslist) <= rec.steps)
    /\ Len(rec.screenshots) = rec.steps

\* C34: at each step record_activity removes the last recorded action before
\* appending the new one exactly when the evaluation of the previous goal
\* does not contain "Success", the memory does not contain "error message"
\* and the action list is not empty; so the list never shrinks across a step,
\* after n completed steps it has between 1 and n entries, and the screenshot
\* list has exactly n entries.
C34_PopOnlyOnUnexplainedFailure ==
    /\ [][PopRule]_vars
    /\ [][NeverShrinks]_vars
    /\ []RecordedCounts

\* three steps done, the last of which took an entry back: two entries left
C34_TookBackAtThirdStep ==
    /\ rec.steps = 3
    /\ Len(rec.actionslist) = 2
    /\ ~rec.last.success
    /\ ~rec.last.error
    /\ Len(rec.screenshots) = 3

\* the last m entries of a list
LastM(list, m) == SubSeq(list, Len(list) - m + 1, Len(list))

\* the entry appended by a completed step is the last m entries of the action
\* history (no entries when m = 0)
AppendsLastM ==
    StepCompleted =>
        rec'.actionslist[Len(rec'.actionslist)].actions =
            LastM(rec'.history, rec'.last.m)

\* C38: the entry appended to the action list at a step consists of exactly
\* the last m entries of the agent's action history, m being the number of
\* actions of the step's last model output; for m = 0 the entry is empty.
C38_AppendsLastMActions == [][AppendsLastM]_vars

(***************************************************************************)
(* Properties of normalize_url and in_domain (SpecNorm)                    *)
(***************************************************************************)

\* C4: normalize is idempotent: applied again and again to its own result it
\* returns the value of the first application.
C4_NormalizeIdempotent == \A i \in 1..Len(nout) : nout[i] = nout[1]

\* u and v are absolute URLs with an authority that differ only in the
\* fragment, or only in that the path of v has one more "/" at its end
SamePageRaw(u, v) ==
    /\ u.netloc # <<>>
    /\ u.scheme = v.scheme
    /\ u.netloc = v.netloc
    /\ u.query = v.query
    /\ \/ v.path = u.path
       \/ v.path = u.path \o <<"/">> /\ v.fragment = u.fragment

\* C5: two raw URLs that differ only by the presence or content of a fragment,
\* or only by one trailing slash of the path (an empty path against "/"
\* included), normalize to the same value.
C5_FragmentAndSlashInsensitive ==
    (nsibout # <<>> /\ SamePageRaw(urlsplit(nraw, <<>>), urlsplit(nsib, <<>>)))
        => nsibout[1] = nout[1]

\* the URL normalize works on: cb resolves a raw URL without authority against
\* the base, isl takes the raw URL as it is
ResolvedRaw(c, raw, base) ==
    IF c = "cb" /\ urlsplit(raw, <<>>).netloc = <<>> THEN urljoin(base, raw) ELSE raw

HasSemicolon(path) == \E i \in 1..Len(path) : path[i] = ";"

\* path without its trailing slashes: its longest prefix that does not end in
\* "/"; the path "/" stays
WithoutTrailingSlashes(path) ==
    IF path = <<"/">> THEN path
    ELSE SubSeq(path, 1,
                IF \E i \in 1..Len(path) : path[i] # "/"
                THEN CHOOSE i \in 1..Len(path) :
                         path[i] # "/" /\ \A j \in (i + 1)..Len(path) : path[j] = "/"
                ELSE 0)

\* path without one trailing slash; the path "/" stays
WithoutOneTrailingSlash(path) ==
    IF path # <<"/">> /\ Len(path) > 0 /\ path[Len(path)] = "/"
    THEN SubSeq(path, 1, Len(path) - 1)
    ELSE path

\* out, which splits into o, is the resolved URL r without its fragment, with
\* scheme, authority and query kept and with the given path (a path with
\* parameters, ";", is left out of the path clause)
NormalizedTo(r, o, out, path) ==
    /\ o.fragment = <<>>
    /\ \A i \in 1..Len(out) : out[i] # "#"
    /\ o.scheme = r.scheme
    /\ o.netloc = r.netloc
    /\ o.query = r.query
    /\ HasSemicolon(r.path) \/ o.path = path

EndsInTwoSlashes(path) ==
    Len(path) >= 3 /\ path[Len(path)] = "/" /\ path[Len(path) - 1] = "/"

InHomeOrigin(u, h) ==
    \/ u.scheme = h.scheme /\ u.netloc = h.netloc
    \/ u.scheme = <<>> /\ u.netloc = <<>>

\* C7: in_domain(url, home) of the scrolling crawler is true exactly when the
\* scheme and authority of url equal those of the home origin or url is
\* relative; a URL of another scheme on the home host and a mailto: URL are
\* out of domain.
C7_InDomainIffSameOrigin ==
    (crawler = "isl" /\ ndom # <<>>)
        => (ndom[1] <=> InHomeOrigin(urlsplit(nraw, <<>>), urlsplit(nbase, <<>>)))

\* C8: in_domain(link, base_origin) of the form-filling crawler returns True
\* for every normalized link whose scheme and host equal those of base_origin.
C8_CbSameOriginInDomain ==
    (/\ crawler = "cb"
     /\ ndom # <<>>
     /\ urlsplit(nout[1], <<>>).netloc # <<>>
     /\ urlsplit(nout[1], <<>>).scheme = urlsplit(nbase, <<>>).scheme
     /\ urlsplit(nout[1], <<>>).netloc = urlsplit(nbase, <<>>).netloc)
        => ndom[1] = TRUE

=============================================================================
